---- MODULE Spec2Model ----
(***************************************************************************)
(* The photo catalog explorer of snekframe (src/snekframe/photos/          *)
(* container.py): the two stores, the catalog nodes CurrentDirectoryInfo   *)
(* and PhotoInfo, the worker thread _explorer_thread and the foreground    *)
(* side of _FileSystemExplorer.                                            *)
(*                                                                         *)
(* Python values are strings: "None", "True", "False" and the members of   *)
(* PhotoDirectorySelection "Not", "Partial", "All"; a path is a sequence   *)
(* of names ("" is <<>>, "A/X" is <<"A", "X">>).                           *)
(***************************************************************************)
EXTENDS Integers, Sequences, FiniteSets, TLC

(* ---------------------------------------------------------------- bounds *)

\* Bound: the navigation, selection and get_view_update calls the foreground
\* makes in one run after start_explorer, and its calls that raise (get_page,
\* which a navigation request obliges it to make, is not counted).
MaxRequests == 2

\* Bound: the calls of save_or_cancel_changes and close_explorer in one run.
MaxCommits == 1

\* Bound: the requests waiting in the request queue when one more is made
MaxPending == 1

\* params.NUM_ITEMS_PER_GALLERY_PAGE, the default of num_items_per_page.
NUM_ITEMS_PER_GALLERY_PAGE == 2

(* --------------------------------------------------------- Python values *)

NONE == "None"
NoName == "<None>"
NoPath == <<"<None>">>
DotPath == <<".">>

PyBool(b) == IF b THEN "True" ELSE "False"

\* bool(v): None and False are falsy; a member of a plain Enum is truthy.
Truthy(v) == v \notin {"None", "False"}

\* PhotoDirectorySelection.<member>.value
EnumValue(e) == CASE e = "Not" -> 0 [] e = "Partial" -> 1 [] e = "All" -> 2

\* PhotoDirectorySelection.value_to_enum
value_to_enum(v) == CASE v = 0 -> "Not" [] v = 1 -> "Partial" [] v = 2 -> "All"

\* os.path.join(prefix, name) on paths as sequences
PathJoin(prefix, name) == prefix \o <<name>>

(* ------------------------------------------------------------ the stores *)

\* A NumPhotos row (db/runtime.py) and a PhotoListV1 row (db/_v1.py).
NumPhotosRow(prefix, dir, np, na) ==
    [prefix_path |-> prefix, directory |-> dir, num_photos |-> np, num_albums |-> na, selected |-> 0]

PhotoListRow(i, p, f) == [id |-> i, path |-> p, filename |-> f, selected |-> FALSE]

(***************************************************************************)
(* Store images a session can open on.  Rows are in insertion order, which *)
(* is the order a query without ORDER BY returns them in.  rescan adds a   *)
(* directory's row after the rows of its subdirectories.  "lost" are the   *)
(* ids of PhotoListV1 rows whose file the last rescan did not find: the    *)
(* row stays (container.py:873-877) and num_photos does not count it.      *)
(*                                                                         *)
(* Two key conventions occur.  Scenario, Deep, Single and Fresh (no photo   *)
(* selected) hold the keys as                                              *)
(* _load_pages looks them up (children of the root under prefix "", the    *)
(* root's photos under path ""); Scanned holds the same tree as Scenario   *)
(* with the keys as rescan writes them (prefix None for a top-level        *)
(* directory, container.py:860; path "." for a photo of the root,          *)
(* container.py:828).                                                      *)
(***************************************************************************)
Scenario ==
    [numphotos |-> << NumPhotosRow(<<>>, "A", 3, 0),
                      NumPhotosRow(<<>>, "B", 2, 0),
                      NumPhotosRow(NoPath, NoName, 0, 2) >>,
     photolist |-> << PhotoListRow(1, <<"A">>, "a1"), PhotoListRow(2, <<"A">>, "a2"),
                      PhotoListRow(3, <<"A">>, "a3"),
                      PhotoListRow(4, <<"B">>, "b1"), PhotoListRow(5, <<"B">>, "b2") >>,
     lost |-> {}]

Scanned ==
    [numphotos |-> << NumPhotosRow(NoPath, "A", 1, 0),
                      NumPhotosRow(NoPath, NoName, 1, 1) >>,
     photolist |-> << PhotoListRow(1, <<"A">>, "a1"), PhotoListRow(2, DotPath, "r1") >>,
     lost |-> {}]

Deep ==
    [numphotos |-> << NumPhotosRow(<<"A">>, "X", 1, 0),
                      NumPhotosRow(<<>>, "A", 1, 1),
                      NumPhotosRow(NoPath, NoName, 0, 1) >>,
     photolist |-> << PhotoListRow(5, <<"A", "X">>, "x1"), PhotoListRow(2, <<"A", "X">>, "x2"),
                      PhotoListRow(3, <<"A">>, "a1") >>,
     lost |-> {2}]

Single ==
    [numphotos |-> << NumPhotosRow(NoPath, NoName, 1, 0) >>,
     photolist |-> << PhotoListRow(4, <<>>, "r1") >>,
     lost |-> {}]

Fresh ==
    [numphotos |-> << NumPhotosRow(<<>>, "A", 1, 0),
                      NumPhotosRow(NoPath, NoName, 1, 1) >>,
     photolist |-> << PhotoListRow(1, <<"A">>, "a1"), PhotoListRow(2, <<>>, "r1") >>,
     lost |-> {}]

EmptyCatalog == [numphotos |-> << >>, photolist |-> << >>, lost |-> {}]

Catalogs == {Scenario, Scanned, Deep, Single, Fresh, EmptyCatalog}

\* The directory a row stands for, as a path of the photo tree.
RowDirectory(r) ==
    IF r.directory = NoName THEN <<>>
    ELSE PathJoin(IF r.prefix_path = NoPath THEN <<>> ELSE r.prefix_path, r.directory)

\* The directory a photo row's file lies in.
RowPhotoDirectory(p) == IF p.path = DotPath THEN <<>> ELSE p.path

SeqToSet(s) == {s[i] : i \in 1..Len(s)}

(* ------------------------------------------------------ the scanner fold *)

\* A fold that keeps the selection of the subdirectory seen last.
LastSeen(directory_selected, internal) == internal

\* scan_directory: directory_selected after one more non-empty subdirectory.
ScanFoldDirectory(directory_selected, internal) ==
    IF directory_selected = NONE THEN internal
    ELSE IF internal = "Partial" THEN internal
    ELSE IF internal # directory_selected THEN "Partial"
    ELSE directory_selected

\* scan_directory: directory_selected after one more photo.
ScanFoldPhoto(directory_selected, photo_selected) ==
    IF directory_selected = NONE THEN (IF photo_selected THEN "All" ELSE "Not")
    ELSE IF directory_selected # "Partial" THEN
        IF directory_selected = "All" /\ ~photo_selected THEN "Partial"
        ELSE IF directory_selected = "Not" /\ photo_selected THEN "Partial"
        ELSE directory_selected
    ELSE directory_selected

RECURSIVE FoldSeq(_, _, _, _)
\* acc after Op over s[i..], the loop of scan_directory over one kind of entry
FoldSeq(Op(_, _), acc, s, i) ==
    IF i > Len(s) THEN acc ELSE FoldSeq(Op, Op(acc, s[i]), s, i + 1)

RECURSIVE ScanSelected(_, _, _)
\* The selection scan_directory returns for directory d of catalog cat when
\* the photos of sel are the selected ones.
ScanSelected(cat, sel, d) ==
    LET subs == SelectSeq(cat.numphotos,
                    LAMBDA r : r.directory # NoName /\ Len(RowDirectory(r)) = Len(d) + 1
                               /\ SubSeq(RowDirectory(r), 1, Len(d)) = d)
        subsel == [i \in 1..Len(subs) |-> ScanSelected(cat, sel, RowDirectory(subs[i]))]
        files == SelectSeq(cat.photolist,
                    LAMBDA p : RowPhotoDirectory(p) = d /\ p.id \notin cat.lost)
        filesel == [i \in 1..Len(files) |-> files[i].id \in sel]
    IN  FoldSeq(ScanFoldPhoto, FoldSeq(ScanFoldDirectory, NONE, subsel, 1), filesel, 1)

\* The NumPhotos table rescan leaves for catalog cat, and PhotoListV1 with
\* the photos of sel selected.
ScannedNumPhotos(cat, sel) ==
    [i \in 1..Len(cat.numphotos) |->
        [cat.numphotos[i] EXCEPT !.selected =
            EnumValue(ScanSelected(cat, sel, RowDirectory(cat.numphotos[i])))]]

StoredPhotoList(cat, sel) ==
    [i \in 1..Len(cat.photolist) |->
        [cat.photolist[i] EXCEPT !.selected = (cat.photolist[i].id \in sel)]]

PhotoIds(cat) == {cat.photolist[i].id : i \in 1..Len(cat.photolist)}

(* ------------------------------------------------------ the catalog nodes *)

(***************************************************************************)
(* A world W is what the catalog nodes read and write: the two sessions    *)
(* the worker holds open (rs: the NumPhotos rows as runtime_session sees   *)
(* them, ps: the PhotoListV1 rows as persistent_session sees them), the    *)
(* CurrentDirectoryInfo objects dn and the PhotoInfo objects pn created so *)
(* far, and fault: an exception is unwinding.  A directory object is       *)
(* named by its (_path, _name), a photo object by its row id.  The         *)
(* optional num_photos/num_albums are -1 for None; the optional parent is  *)
(* a sequence of length 0 or 1.                                            *)
(***************************************************************************)
DirKey(path, name) == [path |-> path, name |-> name]

RootKey == DirKey(NoPath, NoName)

\* CurrentDirectoryInfo.__init__
NewDirectory(parent, num_photos, num_albums, selection) ==
    [selection |-> selection, loaded |-> FALSE, pages |-> << >>,
     num_photos |-> num_photos, num_albums |-> num_albums, parent |-> parent]

\* PhotoInfo.__init__ with a row id given
NewPhoto(parent, selection) == [selection |-> selection, parent |-> parent]

\* CurrentDirectoryInfo.__init__: self._full_path
full_path(k) ==
    IF k.path = NoPath THEN (IF k.name = NoName THEN << >> ELSE <<k.name>>)
    ELSE PathJoin(k.path, k.name)

\* _load_pages: image_path
image_path(k) ==
    LET base == IF k.path = NoPath THEN << >> ELSE k.path
    IN  IF k.name # NoName THEN PathJoin(base, k.name) ELSE base

\* An entry of a page: the CurrentDirectoryInfo or PhotoInfo object it holds.
DirItem(path, name) == [kind |-> "dir", path |-> path, name |-> name, id |-> 0]

PhotoItem(row) == [kind |-> "photo", path |-> row.path, name |-> row.filename, id |-> row.id]

ItemKey(item) == DirKey(item.path, item.name)

IsDirectory(item) == item.kind = "dir"

\* _load_pages: one more object appended, on a new page when the last is full
AppendToPages(pages, item) ==
    IF Len(pages[Len(pages)]) = NUM_ITEMS_PER_GALLERY_PAGE
        THEN Append(pages, <<item>>)
        ELSE [pages EXCEPT ![Len(pages)] = Append(@, item)]

\* select(NumPhotos).where(prefix_path == path, directory == name)
RowsOf(rs, k) == SelectSeq(rs, LAMBDA r : r.prefix_path = k.path /\ r.directory = k.name)

\* update(NumPhotos).where(prefix_path == path, directory == name).values(selected=value)
UpdateNumPhotos(rs, k, value) ==
    [i \in 1..Len(rs) |->
        IF rs[i].prefix_path = k.path /\ rs[i].directory = k.name
            THEN [rs[i] EXCEPT !.selected = value] ELSE rs[i]]

\* update(PhotoListV1).where(id == id).values(selected=selection)
UpdatePhotoList(ps, id, selection) ==
    [i \in 1..Len(ps) |->
        IF ps[i].id = id THEN [ps[i] EXCEPT !.selected = (selection = "True")] ELSE ps[i]]

\* _load_pages: the object after the query for its own row (own: what the
\* query found; .one() has checked that it is one row)
LoadCounts(n, own) ==
    [n EXCEPT !.num_photos = own[1].num_photos,
              !.num_albums = own[1].num_albums,
              !.selection = IF @ = NONE THEN value_to_enum(own[1].selected) ELSE @]

\* _load_pages: the objects installed, for the subdirectory rows and the
\* photo rows the two queries returned
LoadInstall(W, k, n1, subrows, photorows) ==
    LET subitems == [i \in 1..Len(subrows) |-> DirItem(full_path(k), subrows[i].directory)]
        photoitems == [i \in 1..Len(photorows) |-> PhotoItem(photorows[i])]
        subkeys == {DirKey(full_path(k), subrows[i].directory) : i \in 1..Len(subrows)}
        photoids == {photorows[i].id : i \in 1..Len(photorows)}
    IN  [W EXCEPT
            !.dn = [c \in DOMAIN W.dn \cup subkeys |->
                      IF c \in subkeys
                        THEN LET r == CHOOSE r \in SeqToSet(subrows) : r.directory = c.name
                             IN  NewDirectory(<<k>>, r.num_photos, r.num_albums,
                                              value_to_enum(r.selected))
                      ELSE IF c = k
                        THEN [n1 EXCEPT !.loaded = TRUE,
                                        !.pages = FoldSeq(AppendToPages, << << >> >>,
                                                          subitems \o photoitems, 1)]
                      ELSE W.dn[c]],
            !.pn = [i \in DOMAIN W.pn \cup photoids |->
                      IF i \in photoids
                        THEN LET r == CHOOSE r \in SeqToSet(photorows) : r.id = i
                             IN  NewPhoto(k, PyBool(r.selected))
                        ELSE W.pn[i]]]

\* _load_pages: the two queries, for the object n1 with its counts known
LoadQueries(W, k, n1) ==
    LoadInstall(W, k, n1,
        IF n1.num_albums # 0
            THEN SelectSeq(W.rs, LAMBDA r : r.prefix_path = full_path(k)) ELSE << >>,
        IF n1.num_photos # 0
            THEN SelectSeq(W.ps, LAMBDA p : p.path = image_path(k)) ELSE << >>)

\* _load_pages, own being the rows of the directory itself
LoadOwn(W, k, own) ==
    IF W.dn[k].num_photos # -1 THEN LoadQueries(W, k, W.dn[k])
    ELSE IF Len(own) # 1 THEN [W EXCEPT !.fault = TRUE, !.dn[k].loaded = TRUE]  \* .one() raises
    ELSE LoadQueries(W, k, LoadCounts(W.dn[k], own))

\* CurrentDirectoryInfo._load_pages
_load_pages(W, k) == LoadOwn(W, k, RowsOf(W.rs, k))

\* num_pages / get_page without the test of self._pages: a load on every use
AlwaysLoad(W, k) == IF W.fault THEN W ELSE _load_pages(W, k)

\* num_pages / get_page: the pages are loaded on first use
EnsureLoaded(W, k) == IF W.fault \/ W.dn[k].loaded THEN W ELSE _load_pages(W, k)

RECURSIVE Flatten(_, _)
\* for page_index in range(num_pages): for item in get_page(page_index)
Flatten(pages, i) == IF i > Len(pages) THEN << >> ELSE pages[i] \o Flatten(pages, i + 1)

\* the query of CurrentDirectoryInfo.selected, own being the rows it found
DirSelectedQuery(W, k, own) ==
    IF Len(own) # 1 THEN [W EXCEPT !.fault = TRUE]
    ELSE [W EXCEPT !.dn[k].selection = value_to_enum(own[1].selected)]

\* CurrentDirectoryInfo.selected (read): fills the cache when it is None
\* (the world after the read) ...
DirSelectedRead(W, k) ==
    IF W.fault \/ W.dn[k].selection # NONE THEN W ELSE DirSelectedQuery(W, k, RowsOf(W.rs, k))

\* ... and the value the property hands back: the body has no return statement
DirSelectedValue(W, k) == NONE

\* PhotoInfo.selected (read): the cache, set from the row at construction
PhotoSelectedValue(W, id) == W.pn[id].selection

\* item.selected for an object of a page
ItemSelectedValue(W, item) ==
    IF IsDirectory(item) THEN DirSelectedValue(W, ItemKey(item)) ELSE PhotoSelectedValue(W, item.id)

ItemSelectedRead(W, item) == IF IsDirectory(item) THEN DirSelectedRead(W, ItemKey(item)) ELSE W

\* _child_changed: item_selection for the value v of item.selected
ItemSelection(v) == IF v = "True" THEN "All" ELSE IF v = "False" THEN "Not" ELSE v

RECURSIVE ScanItems(_, _, _, _)
RECURSIVE ScanItem(_, _, _, _, _)
\* _child_changed: the loop over the items; "return" or the total_selection
ScanItems(W, items, i, total_selection) ==
    IF i > Len(items) \/ W.fault THEN [W |-> W, total |-> total_selection]
    ELSE ScanItem(ItemSelectedRead(W, items[i]), items, i, total_selection,
                  ItemSelectedValue(W, items[i]))

\* _child_changed: one item, v being its item.selected
ScanItem(W, items, i, total_selection, v) ==
    IF v = "Partial" THEN [W |-> W, total |-> "return"]
    ELSE IF ItemSelection(v) # total_selection THEN [W |-> W, total |-> "Partial"]
    ELSE ScanItems(W, items, i + 1, total_selection)

RECURSIVE _child_changed(_, _, _)
RECURSIVE ChildChangedPartial(_, _, _)
RECURSIVE ChildChangedTotal(_, _, _)
RECURSIVE ChildChangedWrite(_, _, _)

\* _child_changed, selection == Partial: W has the cache and the row written
ChildChangedPartial(W, k, selection) ==
    IF W.dn[k].parent # << >> THEN _child_changed(W, W.dn[k].parent[1], selection) ELSE W

\* _child_changed, after the loop: W has the row written
ChildChangedWrite(W, k, total_selection) ==
    IF W.dn[k].parent # << >> THEN _child_changed(W, W.dn[k].parent[1], total_selection) ELSE W

\* _child_changed, after the loop (scan: what ScanItems found)
ChildChangedTotal(scan, k, selection) ==
    IF scan.W.fault \/ scan.total = "return" THEN scan.W
    ELSE IF scan.total # scan.W.dn[k].selection
        THEN ChildChangedWrite(
                [scan.W EXCEPT !.rs = UpdateNumPhotos(scan.W.rs, k, EnumValue(scan.total))],
                k, scan.total)
    ELSE scan.W

\* _child_changed, the loop, on the world W with the pages of k loaded
ChildChangedLoop(W, k, selection) ==
    IF W.fault THEN W
    ELSE ChildChangedTotal(
            ScanItems(W, Flatten(W.dn[k].pages, 1), 1, IF Truthy(selection) THEN "All" ELSE "Not"),
            k, selection)

\* CurrentDirectoryInfo._child_changed
_child_changed(W, k, selection) ==
    IF W.fault THEN W
    ELSE IF selection = "Partial"
        THEN ChildChangedPartial(
                [W EXCEPT !.dn[k].selection = selection,
                          !.rs = UpdateNumPhotos(W.rs, k, EnumValue(selection))],
                k, selection)
    ELSE ChildChangedLoop(EnsureLoaded(W, k), k, selection)

\* PhotoInfo._set_selected, W having the row written
PhotoPropagate(W, id, selection, propagate_up) ==
    IF propagate_up THEN _child_changed(W, W.pn[id].parent, selection) ELSE W

\* PhotoInfo._set_selected.  The UPDATE binds selection to the Boolean column
\* PhotoListV1.selected: a value that is no bool cannot be bound, and
\* execute raises with no row written.
photo_set_selected(W, id, selection, propagate_up) ==
    IF W.fault THEN W
    ELSE IF selection # PhotoSelectedValue(W, id)
        THEN IF selection \notin {"True", "False"} THEN [W EXCEPT !.fault = TRUE]
             ELSE PhotoPropagate([W EXCEPT !.ps = UpdatePhotoList(W.ps, id, selection)],
                                 id, selection, propagate_up)
    ELSE W

RECURSIVE dir_set_selected(_, _, _, _, _)
RECURSIVE items_set_selected(_, _, _, _)
RECURSIVE DirSetItems(_, _, _)
RECURSIVE DirSetDown(_, _, _, _)
RECURSIVE DirSetWrite(_, _, _, _, _)

\* _set_selected: the loop over the pages, W having them loaded
DirSetItems(W, k, selection) ==
    IF W.fault THEN W ELSE items_set_selected(W, Flatten(W.dn[k].pages, 1), 1, selection)

\* _set_selected: after the row is written and the parent told
DirSetDown(W, k, selection, propagate_down) ==
    IF ~propagate_down \/ W.fault THEN W ELSE DirSetItems(EnsureLoaded(W, k), k, selection)

\* _set_selected: the test and the write, W being the world after self.selected
\* was read
DirSetWrite(W, k, selection, propagate_up, propagate_down) ==
    IF W.fault THEN W
    ELSE IF \/ (Truthy(selection) /\ DirSelectedValue(W, k) # "All")
            \/ (~Truthy(selection) /\ DirSelectedValue(W, k) # "Not")
        THEN DirSetDown(
                IF propagate_up /\ W.dn[k].parent # << >>
                    THEN _child_changed(
                            [W EXCEPT !.rs = UpdateNumPhotos(W.rs, k,
                                IF Truthy(selection) THEN EnumValue("All") ELSE EnumValue("Not"))],
                            W.dn[k].parent[1], selection)
                    ELSE [W EXCEPT !.rs = UpdateNumPhotos(W.rs, k,
                                IF Truthy(selection) THEN EnumValue("All") ELSE EnumValue("Not"))],
                k, selection, propagate_down)
    ELSE W

\* CurrentDirectoryInfo._set_selected
dir_set_selected(W, k, selection, propagate_up, propagate_down) ==
    IF W.fault THEN W
    ELSE DirSetWrite(DirSelectedRead(W, k), k, selection, propagate_up, propagate_down)

\* item._set_selected(selection, propagate_up=False) for the items from i on
items_set_selected(W, items, i, selection) ==
    IF i > Len(items) \/ W.fault THEN W
    ELSE items_set_selected(
            IF IsDirectory(items[i])
                THEN dir_set_selected(W, ItemKey(items[i]), selection, FALSE, TRUE)
                ELSE photo_set_selected(W, items[i].id, selection, FALSE),
            items, i + 1, selection)

\* item.selected = selection (the property setters)
item_set_selected(W, item, selection) ==
    IF IsDirectory(item)
        THEN dir_set_selected(W, ItemKey(item), selection, TRUE, TRUE)
        ELSE photo_set_selected(W, item.id, selection, TRUE)

(* ------------------------------------------------------------- the state *)

VARIABLES
    catalog,                    \* the store image the run started on
    photolist,                  \* PhotoListV1 as committed (the Catalog Store)
    numphotos,                  \* NumPhotos as committed (the Aggregate Store)
    runtime_session,            \* NumPhotos as the worker's session sees it
    persistent_session,         \* PhotoListV1 as the worker's session sees it
    dn, pn,                     \* the CurrentDirectoryInfo / PhotoInfo objects
    thread,                     \* self._thread: "none", "running", "returned", "dead"
    directory_info,             \* worker locals (_explorer_thread)
    page_number,
    current_page_id,            \* -1 for None
    next_pages,                 \* << >> for None, <<page>> otherwise
    current_display_index,
    current_display_stage,
    directory,                  \* "unbound" until GoIntoPage binds it
    request_queue,              \* self._request_queue
    return_data_queue,          \* self._return_data_queue
    opening_page,               \* self._opening_page
    current_displayed_page_id,  \* self._current_displayed_page_id, -1 for None
    fg,                         \* where the foreground is: "idle", or blocked in
                                \* "start_explorer" / "close_explorer", or "closed"
    result,                     \* what the last get_page / get_view_update returned
    issued,                     \* the calls the foreground has made so far: how
                                \* many, whether the last navigation request was
                                \* for a page that exists, the last request a
                                \* request_* method put, the threads created
    log,                        \* the requests the worker has handled, in order
    expected                    \* photo id -> the flag the edits handled so far ask for

stores == <<catalog, photolist, numphotos>>
sessions == <<runtime_session, persistent_session>>
objects == <<dn, pn>>
locals == <<directory_info, page_number, current_page_id, next_pages,
            current_display_index, current_display_stage, directory>>
facade == <<opening_page, current_displayed_page_id, fg, result, issued>>
vars == <<stores, sessions, objects, thread, locals, request_queue, return_data_queue,
          facade, log, expected>>

\* The photos a run can start with selected (B's of the Scenario).
Preselected == {4, 5}

\* The selection a run starts on.
InitSelections(cat) == {PhotoIds(cat) \cap Preselected}

NoResult == [type |-> "None"]

\* photo id -> selected flag, for the rows of PhotoListV1
Flags(rows) ==
    [i \in {rows[j].id : j \in 1..Len(rows)} |->
        \E j \in 1..Len(rows) : rows[j].id = i /\ rows[j].selected]

(***************************************************************************)
(* Init: a _FileSystemExplorer just constructed (__init__), over a store   *)
(* as rescan left it.  Python raises UnboundLocalError where               *)
(* StartExplorer reads the local "directory" (container.py:545) before     *)
(* GoIntoPage has bound it (container.py:421); the runs that start with    *)
(* it bound are there so that the handlers behind that fault are checked   *)
(* as well.                                                                *)
(***************************************************************************)
InitOn(catalogs) ==
    /\ catalog \in catalogs
    /\ \E sel \in InitSelections(catalog) :
        /\ photolist = StoredPhotoList(catalog, sel)
        /\ numphotos = ScannedNumPhotos(catalog, sel)
    /\ runtime_session = numphotos
    /\ persistent_session = photolist
    /\ dn = << >>
    /\ pn = << >>
    /\ thread = "none"
    /\ directory_info = << >>
    /\ page_number = << >>
    /\ current_page_id = -1
    /\ next_pages = << >>
    /\ current_display_index = 0
    /\ current_display_stage = << >>
    /\ directory \in {"unbound", "True"}
    /\ request_queue = << >>
    /\ return_data_queue = << >>
    /\ opening_page = FALSE
    /\ current_displayed_page_id = -1
    /\ fg = "idle"
    /\ result = NoResult
    /\ issued = [requests |-> 0, commits |-> 0, saves |-> 0, valid |-> FALSE,
                 last |-> NoResult, threads |-> 0]
    /\ log = << >>
    /\ expected = Flags(photolist)

Init == InitOn(Catalogs)

(* ------------------------------------------------------------ the worker *)

World == [rs |-> runtime_session, ps |-> persistent_session, dn |-> dn, pn |-> pn, fault |-> FALSE]

Top == directory_info[Len(directory_info)]

Item == Head(request_queue)

\* get_nowait() handed the worker a request of this type
Handling(type) == thread = "running" /\ request_queue # << >> /\ Item.type = type

\* get_nowait() raised queue.Empty and this is the stage to work on
Idle(stage) ==
    /\ thread = "running" /\ request_queue = << >>
    /\ current_display_stage # << >> /\ current_display_stage[1] = stage

\* An exception leaves _explorer_thread: the with block closes both sessions,
\* which rolls back what they had not committed, and the thread ends.
Raise ==
    /\ thread' = "dead"
    /\ runtime_session' = numphotos
    /\ persistent_session' = photolist

\* The stage list every navigation sets up (container.py:436-443, 482-489, 544-551)
StageList(dir) ==
    <<"Directions">> \o (IF dir = "True" THEN <<"Name">> ELSE << >>)
        \o <<"Selection", "Image", "SelectDirection">>

DisplayNewPage(title, dir, id) ==
    [type |-> "DisplayNewPage", title |-> title, directory |-> dir, new_page_id |-> id]

DirectionsUpdate(id, backwards, forwards, up, selection) ==
    [type |-> "DirectionsUpdate", current_page_id |-> id, backwards |-> backwards,
     forwards |-> forwards, up |-> up, selection |-> selection]

NameViewUpdate(id, index, name, dir) ==
    [type |-> "NameViewUpdate", current_page_id |-> id, index |-> index, name |-> name,
     directory |-> dir]

SelectViewUpdate(id, index, selection) ==
    [type |-> "SelectViewUpdate", current_page_id |-> id, index |-> index,
     selection |-> selection]

FullImageViewUpdate(id, name) ==
    [type |-> "FullImageViewUpdate", current_page_id |-> id, image |-> name]

\* A navigation that leaves the page id as it is.
SamePageId(id) == id

\* current_page_id += 1
NextPageId(id) == id + 1

\* isinstance(item, StartExplorer)
HandleStartExplorer ==
    /\ Handling("StartExplorer")
    /\ request_queue' = Tail(request_queue)
    /\ UNCHANGED <<stores, facade, expected, current_display_index, directory>>
    /\ IF current_page_id # -1 \/ directory_info # << >>
         THEN /\ Raise
              /\ UNCHANGED <<objects, return_data_queue, log, directory_info, page_number,
                             current_page_id, next_pages, current_display_stage>>
         ELSE LET W0 == [World EXCEPT !.dn = RootKey :> NewDirectory(<< >>, -1, -1, NONE)]
                  W1 == EnsureLoaded(W0, RootKey)
              IN  /\ dn' = W1.dn
                  /\ pn' = W1.pn
                  /\ directory_info' = <<DirItem(NoPath, NoName)>>
                  /\ page_number' = <<0>>
                  /\ IF W1.fault
                       THEN /\ Raise     \* .one() found no row for the root
                            /\ UNCHANGED <<return_data_queue, log, current_page_id,
                                           next_pages, current_display_stage>>
                       ELSE /\ next_pages' = <<W1.dn[RootKey].pages[1]>>
                            /\ current_page_id' = 0
                            /\ return_data_queue' =
                                 Append(return_data_queue, DisplayNewPage(NoName, TRUE, 0))
                            /\ IF directory = "unbound"
                                 THEN /\ Raise
                                      /\ UNCHANGED <<log, current_display_stage>>
                                 ELSE /\ current_display_stage' = StageList(directory)
                                      /\ log' = Append(log, "Start")
                                      /\ UNCHANGED <<thread, sessions>>

\* isinstance(item, GoIntoPage)
HandleGoIntoPage ==
    /\ Handling("GoIntoPage")
    /\ request_queue' = Tail(request_queue)
    /\ UNCHANGED <<stores, facade, expected>>
    /\ IF \/ current_page_id # Item.current_page_id
          \/ directory_info = << >>
          \/ next_pages = << >>
          \/ Item.into_index >= Len(next_pages[1])      \* IndexError
         THEN /\ Raise
              /\ UNCHANGED <<objects, return_data_queue, log, locals>>
         ELSE LET target == next_pages[1][Item.into_index + 1]
                  isdir == IsDirectory(target)
                  W1 == IF isdir THEN EnsureLoaded(World, ItemKey(target)) ELSE World
              IN  /\ directory_info' = Append(directory_info, target)
                  /\ page_number' = Append(page_number, 0)
                  /\ directory' = PyBool(isdir)
                  /\ dn' = W1.dn
                  /\ pn' = W1.pn
                  /\ IF W1.fault
                       THEN /\ Raise
                            /\ UNCHANGED <<return_data_queue, log, current_page_id, next_pages,
                                           current_display_index, current_display_stage>>
                       ELSE /\ next_pages' = IF isdir THEN <<W1.dn[ItemKey(target)].pages[1]>>
                                             ELSE << >>
                            /\ current_page_id' = NextPageId(current_page_id)
                            /\ return_data_queue' = Append(return_data_queue,
                                 DisplayNewPage(target.name, isdir,
                                                NextPageId(current_page_id)))
                            /\ current_display_stage' = StageList(PyBool(isdir))
                            /\ current_display_index' = 0
                            /\ log' = Append(log, "GoInto")
                            /\ UNCHANGED <<thread, sessions>>

\* GoToPage with no check of what the stack holds.
GoToUnchecked == current_page_id # Item.current_page_id

\* GoToPage's checks without the one that turns down a directory.
GoToOnDirectory ==
    \/ current_page_id # Item.current_page_id
    \/ directory_info = << >>
    \/ (Item.direction = "Up" /\ Len(directory_info) < 2)

\* GoToPage: the checks that raise before anything is changed
GoToRejected ==
    \/ current_page_id # Item.current_page_id
    \/ directory_info = << >>                     \* directory_info[-1]: IndexError
    \/ IsDirectory(Top)
    \/ (Item.direction = "Up" /\ Len(directory_info) < 2)

\* isinstance(item, GoToPage)
HandleGoToPage ==
    /\ Handling("GoToPage")
    /\ request_queue' = Tail(request_queue)
    /\ UNCHANGED <<stores, facade, expected, objects, directory>>
    /\ IF GoToRejected
         THEN /\ Raise
              /\ UNCHANGED <<return_data_queue, log, directory_info, page_number,
                             current_page_id, next_pages, current_display_index,
                             current_display_stage>>
         ELSE LET up == Item.direction = "Up"
                  info == IF up THEN SubSeq(directory_info, 1, Len(directory_info) - 1)
                          ELSE directory_info
                  number == IF up THEN SubSeq(page_number, 1, Len(page_number) - 1)
                            ELSE [page_number EXCEPT ![Len(page_number)] =
                                    IF Item.direction = "Previous" THEN @ - 1 ELSE @ + 1]
                  new_title == IF up THEN NoName ELSE Top.name
                  top == info[Len(info)]
                  n == number[Len(number)]
                  \* directory_info[-1] of an empty stack is an IndexError;
                  \* get_page: a PhotoInfo has none (AttributeError); a negative
                  \* page number counts from the end; beyond the pages is an IndexError
                  isdir == info # << >> /\ IsDirectory(top)
                  pages == IF isdir THEN dn[ItemKey(top)].pages ELSE << >>
                  at == IF n < 0 THEN Len(pages) + n + 1 ELSE n + 1
                  found == isdir /\ at >= 1 /\ at <= Len(pages)
              IN  /\ directory_info' = info
                  /\ page_number' = number
                  /\ current_page_id' = NextPageId(current_page_id)
                  /\ return_data_queue' = Append(return_data_queue,
                       DisplayNewPage(new_title, TRUE, NextPageId(current_page_id)))
                  /\ IF ~found
                       THEN /\ Raise
                            /\ UNCHANGED <<log, next_pages, current_display_index,
                                           current_display_stage>>
                       ELSE /\ next_pages' = <<pages[at]>>
                            /\ log' = Append(log, "GoTo")
                            /\ current_display_stage' = StageList(directory)
                            /\ current_display_index' = 0
                            /\ UNCHANGED <<thread, sessions>>

\* The photo rows an edit of this item is about: the photo itself, or every
\* photo below the directory.
Covered(item) ==
    IF IsDirectory(item)
        THEN {photolist[i].id : i \in {j \in 1..Len(photolist) :
                LET d == full_path(ItemKey(item))
                    q == RowPhotoDirectory(photolist[j])
                IN  Len(q) >= Len(d) /\ SubSeq(q, 1, Len(d)) = d}}
        ELSE {item.id}

\* isinstance(item, SelectItem)
HandleSelectItem ==
    /\ Handling("SelectItem")
    /\ request_queue' = Tail(request_queue)
    /\ UNCHANGED <<stores, facade, locals>>
    /\ IF \/ current_page_id # Item.current_page_id
          \/ directory_info = << >>
          \/ (IsDirectory(Top) /\ (next_pages = << >> \/ Item.index >= Len(next_pages[1])))
         THEN /\ Raise
              /\ UNCHANGED <<objects, return_data_queue, log, expected>>
         ELSE LET target == IF IsDirectory(Top) THEN next_pages[1][Item.index + 1] ELSE Top
                  W1 == item_set_selected(World, target, PyBool(Item.select))
              IN  /\ dn' = W1.dn
                  /\ pn' = W1.pn
                  /\ IF W1.fault
                       THEN /\ Raise
                            /\ UNCHANGED <<return_data_queue, log, expected>>
                       ELSE /\ runtime_session' = W1.rs
                            /\ persistent_session' = W1.ps
                            /\ return_data_queue' = Append(return_data_queue,
                                 SelectViewUpdate(current_page_id, Item.index,
                                                  IF Item.select THEN "All" ELSE "Not"))
                            /\ log' = Append(log, "Select")
                            /\ expected' = [i \in DOMAIN expected |->
                                 IF i \in Covered(target) THEN Item.select ELSE expected[i]]
                            /\ UNCHANGED thread

\* The photo rows a SelectAll is about: those the items of the root cover.
CoveredByAll(W) ==
    UNION {Covered(item) : item \in SeqToSet(Flatten(W.dn[ItemKey(directory_info[1])].pages, 1))}

RECURSIVE select_all(_, _, _, _)
\* SelectAll: page.selected = item.select for the pages (items) of the root from i on
select_all(W, items, i, selection) ==
    IF i > Len(items) \/ W.fault THEN W
    ELSE select_all(item_set_selected(W, items[i], selection), items, i + 1, selection)

\* isinstance(item, SelectAll)
HandleSelectAll ==
    /\ Handling("SelectAll")
    /\ request_queue' = Tail(request_queue)
    /\ UNCHANGED <<stores, facade, directory_info, page_number, current_page_id, next_pages,
                   directory>>
    /\ IF current_page_id # Item.current_page_id \/ directory_info = << >>
         THEN /\ Raise
              /\ UNCHANGED <<objects, return_data_queue, log, expected,
                             current_display_index, current_display_stage>>
         ELSE LET W0 == EnsureLoaded(World, ItemKey(directory_info[1]))
                  W1 == IF W0.fault THEN W0
                        ELSE select_all(W0, Flatten(W0.dn[ItemKey(directory_info[1])].pages, 1),
                                        1, PyBool(Item.select))
              IN  /\ dn' = W1.dn
                  /\ pn' = W1.pn
                  /\ IF W1.fault
                       THEN /\ Raise
                            /\ UNCHANGED <<return_data_queue, log, expected,
                                           current_display_index, current_display_stage>>
                       ELSE /\ return_data_queue' = Append(return_data_queue,
                                 DirectionsUpdate(current_page_id, NONE, NONE, NONE,
                                                  IF Item.select THEN "All" ELSE "Not"))
                            /\ IF current_display_stage = << >>
                                 THEN /\ Raise        \* current_display_stage[0]: IndexError
                                      /\ UNCHANGED <<log, expected, current_display_index,
                                                     current_display_stage>>
                                 ELSE /\ runtime_session' = W1.rs
                                      /\ persistent_session' = W1.ps
                                      /\ log' = Append(log, "SelectAll")
                                      /\ expected' = [i \in DOMAIN expected |->
                                            IF i \in CoveredByAll(W0) THEN Item.select
                                            ELSE expected[i]]
                                      /\ UNCHANGED thread
                                      /\ IF current_display_stage[1] = "Selection"
                                           THEN /\ current_display_index' = 0
                                                /\ UNCHANGED current_display_stage
                                           ELSE /\ current_display_stage' =
                                                     Append(current_display_stage, "Selection")
                                                /\ UNCHANGED current_display_index

\* session.commit() / session.rollback() on one session: its view and the
\* committed table afterwards
SessionCommit(view, table) == [view |-> view, table |-> view]

\* A rollback that keeps the edits, as a commit would.
SessionRollbackKeeps(view, table) == [view |-> view, table |-> view]

SessionRollback(view, table) == [view |-> table, table |-> table]

\* isinstance(item, CommitChanges): both sessions, the same way
CommitOrRollback(save, view, table) ==
    IF save THEN SessionCommit(view, table) ELSE SessionRollback(view, table)

HandleCommitChanges ==
    /\ Handling("CommitChanges")
    /\ request_queue' = Tail(request_queue)
    /\ LET r == CommitOrRollback(Item.save, runtime_session, numphotos)
           p == CommitOrRollback(Item.save, persistent_session, photolist)
       IN  /\ runtime_session' = r.view
           /\ numphotos' = r.table
           /\ persistent_session' = p.view
           /\ photolist' = p.table
    /\ log' = Append(log, IF Item.save THEN "Save"
                           ELSE IF persistent_session # photolist THEN "Discard"
                           ELSE "Cancel")
    /\ expected' = IF Item.save THEN expected ELSE Flags(photolist)
    /\ UNCHANGED <<catalog, objects, thread, locals, return_data_queue, facade>>

\* isinstance(item, CloseExplorer): finished = True, the loop and the with
\* block end, the sessions close
HandleCloseExplorer ==
    /\ Handling("CloseExplorer")
    /\ request_queue' = Tail(request_queue)
    /\ thread' = "returned"
    /\ runtime_session' = numphotos
    /\ persistent_session' = photolist
    /\ log' = Append(log, "Close")
    /\ UNCHANGED <<stores, objects, locals, return_data_queue, facade, expected>>

(* ---------------------------------------------------- the display stages *)

\* the stage list without its first entry (current_display_stage.pop(0))
Pop == Tail(current_display_stage)

\* The Directions stage with forwards taken against num_pages instead of
\* num_pages - 1.
DirectionsOffByOne ==
    /\ Idle("Directions")
    /\ LET isdir == IsDirectory(Top)
           backwards == isdir /\ page_number[Len(page_number)] > 0
           forwards == isdir /\
                page_number[Len(page_number)] < Len(dn[ItemKey(Top)].pages)
       IN  return_data_queue' = Append(return_data_queue,
                DirectionsUpdate(current_page_id, PyBool(backwards), PyBool(forwards),
                                 PyBool(Len(directory_info) > 1), NONE))
    /\ current_display_stage' = Pop
    /\ UNCHANGED <<stores, sessions, objects, thread, directory_info, page_number,
                   current_page_id, next_pages, current_display_index, directory,
                   request_queue, facade, log, expected>>

\* _PageDisplayStage.Directions
DisplayDirections ==
    /\ Idle("Directions")
    /\ LET isdir == IsDirectory(Top)
           backwards == isdir /\ page_number[Len(page_number)] > 0
           forwards == isdir /\
                page_number[Len(page_number)] < Len(dn[ItemKey(Top)].pages) - 1
       IN  return_data_queue' = Append(return_data_queue,
                DirectionsUpdate(current_page_id, PyBool(backwards), PyBool(forwards),
                                 PyBool(Len(directory_info) > 1), NONE))
    /\ current_display_stage' = Pop
    /\ UNCHANGED <<stores, sessions, objects, thread, directory_info, page_number,
                   current_page_id, next_pages, current_display_index, directory,
                   request_queue, facade, log, expected>>

\* _PageDisplayStage.Name
DisplayName ==
    /\ Idle("Name")
    /\ UNCHANGED <<stores, objects, directory_info, page_number, current_page_id, next_pages,
                   directory, request_queue, facade, log, expected>>
    /\ IF next_pages = << >> \/ current_display_index >= Len(next_pages[1])
         THEN /\ Raise
              /\ UNCHANGED <<return_data_queue, current_display_index, current_display_stage>>
         ELSE LET it == next_pages[1][current_display_index + 1]
                  last == current_display_index + 1 = Len(next_pages[1])
              IN  /\ return_data_queue' = Append(return_data_queue,
                        NameViewUpdate(current_page_id, current_display_index, it.name,
                                       IsDirectory(it)))
                  /\ current_display_index' = IF last THEN 0 ELSE current_display_index + 1
                  /\ current_display_stage' = IF last THEN Pop ELSE current_display_stage
                  /\ UNCHANGED <<thread, sessions>>

\* _PageDisplayStage.Selection
DisplaySelection ==
    /\ Idle("Selection")
    /\ UNCHANGED <<stores, objects, directory_info, page_number, current_page_id, next_pages,
                   directory, request_queue, facade, log, expected>>
    /\ IF IsDirectory(Top) /\ (next_pages = << >> \/ current_display_index >= Len(next_pages[1]))
         THEN /\ Raise
              /\ UNCHANGED <<return_data_queue, current_display_index, current_display_stage>>
         ELSE LET selection ==
                    IF IsDirectory(Top)
                        THEN ItemSelectedValue(World, next_pages[1][current_display_index + 1])
                        ELSE IF Truthy(PhotoSelectedValue(World, Top.id)) THEN "All" ELSE "Not"
                  last == next_pages = << >> \/ current_display_index + 1 = Len(next_pages[1])
              IN  /\ return_data_queue' = Append(return_data_queue,
                        SelectViewUpdate(current_page_id, current_display_index, selection))
                  /\ current_display_index' = IF last THEN 0 ELSE current_display_index + 1
                  /\ current_display_stage' = IF last THEN Pop ELSE current_display_stage
                  /\ UNCHANGED <<thread, sessions>>

\* _PageDisplayStage.Image.  On a photo page the stage hands
\* display._resize_image the bound method generate_image, not the image it
\* would open (there is no call): exif_transpose raises on it, and no
\* FullImageViewUpdate is put.
DisplayImage ==
    /\ Idle("Image")
    /\ UNCHANGED <<stores, objects, directory_info, page_number, current_page_id, next_pages,
                   current_display_index, directory, request_queue, return_data_queue,
                   facade, log, expected>>
    /\ IF IsDirectory(Top)
         THEN /\ current_display_stage' = Pop
              /\ UNCHANGED <<thread, sessions>>
         ELSE /\ Raise
              /\ UNCHANGED current_display_stage

\* SelectDirection: total_selection after one more item of the root
SelectDirectionFold(total_selection, page_selection) ==
    IF total_selection = "Partial" THEN total_selection
    ELSE IF page_selection = "Partial" THEN page_selection
    ELSE IF total_selection = NONE THEN page_selection
    ELSE IF total_selection = "Not" /\ page_selection = "All" THEN "Partial"
    ELSE IF total_selection = "All" /\ page_selection = "Not" THEN "Partial"
    ELSE total_selection

\* SelectDirection: page_selection of one item of the root
PageSelection(W, item) ==
    IF IsDirectory(item) THEN DirSelectedValue(W, ItemKey(item))
    ELSE IF Truthy(PhotoSelectedValue(W, item.id)) THEN "All" ELSE "Not"

\* _PageDisplayStage.SelectDirection
DisplaySelectDirection ==
    /\ Idle("SelectDirection")
    /\ LET items == Flatten(dn[ItemKey(directory_info[1])].pages, 1)
           sels == [i \in 1..Len(items) |-> PageSelection(World, items[i])]
       IN  return_data_queue' = Append(return_data_queue,
                DirectionsUpdate(current_page_id, NONE, NONE, NONE,
                                 FoldSeq(SelectDirectionFold, NONE, sels, 1)))
    /\ current_display_index' = 0
    /\ current_display_stage' = Pop
    /\ UNCHANGED <<stores, sessions, objects, thread, directory_info, page_number,
                   current_page_id, next_pages, directory, request_queue, facade, log,
                   expected>>

(* -------------------------------------------------------- the foreground *)

Indexes == 0..(NUM_ITEMS_PER_GALLERY_PAGE - 1)

PageDirection == {"Up", "Previous", "Next"}

\* the bounds of the exploration: requests made so far, requests waiting
MayPut == issued.requests < MaxRequests /\ Len(request_queue) < MaxPending

MayCommit == issued.commits < MaxCommits /\ Len(request_queue) < MaxPending

\* A request_* method that makes none of its checks.
AnyRequest(page_id) == TRUE

\* The checks of a request_* method without the comparison of page ids.
AnyPageId(page_id) ==
    /\ ~opening_page
    /\ current_displayed_page_id # -1

\* the checks every request_* method starts with (the call raises when they
\* fail), page_id being the current_page_id the caller passes
MayRequest(page_id) ==
    /\ ~opening_page
    /\ current_displayed_page_id # -1
    /\ current_displayed_page_id = page_id

\* The page ids a caller passes: the one displayed, or the one before it.
PageIdArgs == {current_displayed_page_id, current_displayed_page_id - 1}

\* self._request_queue.put(item)
Put(item) ==
    /\ request_queue' = Append(request_queue, item)
    /\ issued' = [issued EXCEPT !.requests = @ + 1, !.last = item]

\* raise Exception() in a method of the facade: the call has changed nothing
\* (it counts as one of the calls of the run)
Refuse(method) ==
    /\ issued.requests < MaxRequests
    /\ result' = [type |-> "Exception", method |-> method]
    /\ issued' = [issued EXCEPT !.requests = @ + 1]
    /\ UNCHANGED <<request_queue, opening_page>>

\* A start_explorer that makes none of its checks.
StartUnchecked == FALSE

\* start_explorer: the checks that raise
StartRefused ==
    \/ current_displayed_page_id # -1
    \/ request_queue # << >>
    \/ return_data_queue # << >>
    \/ thread # "none"

\* _FileSystemExplorer.start_explorer, up to the blocking get
start_explorer ==
    /\ fg = "idle"
    /\ IF StartRefused
         THEN /\ Refuse("start_explorer")
              /\ UNCHANGED <<thread, fg>>
         ELSE /\ thread' = "running"
              /\ opening_page' = TRUE
              /\ request_queue' = Append(request_queue, [type |-> "StartExplorer"])
              /\ issued' = [issued EXCEPT !.threads = @ + 1]
              /\ fg' = "start_explorer"
              /\ UNCHANGED result
    /\ UNCHANGED <<stores, sessions, objects, locals, return_data_queue,
                   current_displayed_page_id, log, expected>>

\* A start_explorer that also resets the worker's page numbers on its return.
SharedReturn ==
    /\ fg = "start_explorer"
    /\ return_data_queue # << >>
    /\ result' = Head(return_data_queue)
    /\ return_data_queue' = Tail(return_data_queue)
    /\ current_displayed_page_id' = Head(return_data_queue).new_page_id
    /\ opening_page' = FALSE
    /\ fg' = "idle"
    /\ page_number' = << >>
    /\ UNCHANGED <<stores, sessions, objects, thread, directory_info, current_page_id,
                   next_pages, current_display_index, current_display_stage, directory,
                   request_queue, issued, log, expected>>

\* start_explorer: the get returns
start_explorer_return ==
    /\ fg = "start_explorer"
    /\ return_data_queue # << >>
    /\ result' = Head(return_data_queue)
    /\ return_data_queue' = Tail(return_data_queue)
    /\ current_displayed_page_id' = Head(return_data_queue).new_page_id
    /\ opening_page' = FALSE
    /\ fg' = "idle"
    /\ UNCHANGED <<stores, sessions, objects, thread, locals, request_queue, issued, log,
                   expected>>

\* The displayed page has an item at this index.
ValidIndex(index) == next_pages # << >> /\ index < Len(next_pages[1])

\* There is a page in this direction from the displayed one.
ValidDirection(direction) ==
    /\ directory_info # << >>
    /\ CASE direction = "Up" -> Len(directory_info) > 1
         [] direction = "Previous" -> IsDirectory(Top) /\ page_number[Len(page_number)] > 0
         [] direction = "Next" ->
                /\ IsDirectory(Top)
                /\ page_number[Len(page_number)] < Len(dn[ItemKey(Top)].pages) - 1

\* _FileSystemExplorer.request_go_into_page
request_go_into_page ==
    /\ fg = "idle" /\ MayPut
    /\ \E id \in PageIdArgs, index \in Indexes :
        IF MayRequest(id)
          THEN /\ request_queue' = Append(request_queue,
                    [type |-> "GoIntoPage", current_page_id |-> id, into_index |-> index])
               /\ issued' = [issued EXCEPT !.requests = @ + 1, !.valid = ValidIndex(index),
                                 !.last = [type |-> "GoIntoPage", current_page_id |-> id,
                                           into_index |-> index]]
               /\ opening_page' = TRUE
               /\ UNCHANGED result
          ELSE Refuse("request_go_into_page")
    /\ UNCHANGED <<stores, sessions, objects, thread, locals, return_data_queue,
                   current_displayed_page_id, fg, log, expected>>

\* _FileSystemExplorer.request_goto_page
request_goto_page ==
    /\ fg = "idle" /\ MayPut
    /\ \E id \in PageIdArgs, direction \in PageDirection :
        IF MayRequest(id)
          THEN /\ request_queue' = Append(request_queue,
                    [type |-> "GoToPage", current_page_id |-> id, direction |-> direction])
               /\ issued' = [issued EXCEPT !.requests = @ + 1,
                                 !.valid = ValidDirection(direction),
                                 !.last = [type |-> "GoToPage", current_page_id |-> id,
                                           direction |-> direction]]
               /\ opening_page' = TRUE
               /\ UNCHANGED result
          ELSE Refuse("request_goto_page")
    /\ UNCHANGED <<stores, sessions, objects, thread, locals, return_data_queue,
                   current_displayed_page_id, fg, log, expected>>

\* _FileSystemExplorer.request_selection
request_selection ==
    /\ fg = "idle" /\ MayPut
    /\ \E id \in PageIdArgs, index \in Indexes, select \in BOOLEAN :
        IF MayRequest(id)
          THEN /\ Put([type |-> "SelectItem", current_page_id |-> id,
                       index |-> index, select |-> select])
               /\ UNCHANGED <<opening_page, result>>
          ELSE Refuse("request_selection")
    /\ UNCHANGED <<stores, sessions, objects, thread, locals, return_data_queue,
                   current_displayed_page_id, fg, log, expected>>

\* _FileSystemExplorer.request_select_all
request_select_all ==
    /\ fg = "idle" /\ MayPut
    /\ \E id \in PageIdArgs, select \in BOOLEAN :
        IF MayRequest(id)
          THEN /\ Put([type |-> "SelectAll", current_page_id |-> id, select |-> select])
               /\ UNCHANGED <<opening_page, result>>
          ELSE Refuse("request_select_all")
    /\ UNCHANGED <<stores, sessions, objects, thread, locals, return_data_queue,
                   current_displayed_page_id, fg, log, expected>>

\* A get_page that hands the page over without taking its id as the
\* displayed one.
GetPageKeepsId ==
    /\ fg = "idle"
    /\ opening_page
    /\ current_displayed_page_id # -1
    /\ return_data_queue # << >>
    /\ return_data_queue' = Tail(return_data_queue)
    /\ LET got == Head(return_data_queue)
       IN  IF got.type # "DisplayNewPage"
             THEN UNCHANGED <<opening_page, result>>
           ELSE IF current_displayed_page_id >= got.new_page_id
             THEN /\ result' = [type |-> "Exception"]
                  /\ UNCHANGED opening_page
           ELSE /\ opening_page' = FALSE
                /\ result' = got
    /\ UNCHANGED <<stores, sessions, objects, thread, locals, request_queue, fg, issued, log,
                   expected, current_displayed_page_id>>

\* _FileSystemExplorer.get_page: one turn of its loop, the get having returned
get_page ==
    /\ fg = "idle"
    /\ opening_page
    /\ current_displayed_page_id # -1
    /\ return_data_queue # << >>
    /\ return_data_queue' = Tail(return_data_queue)
    /\ LET got == Head(return_data_queue)
       IN  IF got.type # "DisplayNewPage"
             THEN UNCHANGED <<opening_page, current_displayed_page_id, result>>
           ELSE IF current_displayed_page_id >= got.new_page_id
             THEN /\ result' = [type |-> "Exception"]
                  /\ UNCHANGED <<opening_page, current_displayed_page_id>>
           ELSE /\ current_displayed_page_id' = got.new_page_id
                /\ opening_page' = FALSE
                /\ result' = got
    /\ UNCHANGED <<stores, sessions, objects, thread, locals, request_queue, fg, issued, log,
                   expected>>

\* A get_view_update that returns whatever update comes first.
FirstUpdate(q, displayed) ==
    IF q = << >> THEN [queue |-> q, result |-> NoResult]
    ELSE [queue |-> Tail(q), result |-> Head(q)]

RECURSIVE NextViewUpdate(_, _)
\* get_view_update's loop on a queue q: what is left of q and what is returned
NextViewUpdate(q, displayed) ==
    IF q = << >> THEN [queue |-> q, result |-> NoResult]
    ELSE IF Head(q).type = "DisplayNewPage"
        THEN [queue |-> Tail(q), result |-> [type |-> "Exception"]]
    ELSE IF Head(q).current_page_id < displayed THEN NextViewUpdate(Tail(q), displayed)
    ELSE IF Head(q).current_page_id > displayed
        THEN [queue |-> Tail(q), result |-> [type |-> "Exception"]]
    ELSE [queue |-> Tail(q), result |-> Head(q)]

\* _FileSystemExplorer.get_view_update
get_view_update ==
    /\ fg = "idle"
    /\ ~opening_page
    /\ current_displayed_page_id # -1
    /\ issued.requests < MaxRequests
    /\ issued' = [issued EXCEPT !.requests = @ + 1]
    /\ LET r == NextViewUpdate(return_data_queue, current_displayed_page_id)
       IN  /\ return_data_queue' = r.queue
           /\ result' = r.result
    /\ UNCHANGED <<stores, sessions, objects, thread, locals, request_queue, opening_page,
                   current_displayed_page_id, fg, log, expected>>

\* _FileSystemExplorer.save_or_cancel_changes
save_or_cancel_changes ==
    /\ fg = "idle"
    /\ current_displayed_page_id # -1
    /\ MayCommit
    /\ \E save \in BOOLEAN :
        /\ request_queue' = Append(request_queue, [type |-> "CommitChanges", save |-> save])
        /\ issued' = [issued EXCEPT !.commits = @ + 1,
                                    !.saves = IF save THEN @ + 1 ELSE @]
    /\ UNCHANGED <<stores, sessions, objects, thread, locals, return_data_queue,
                   opening_page, current_displayed_page_id, fg, result, log, expected>>

\* A close_explorer that saves: save_or_cancel_changes(True).
close_explorer_saves ==
    /\ fg = "idle"
    /\ current_displayed_page_id # -1
    /\ MayCommit
    /\ request_queue' = request_queue \o
            <<[type |-> "CommitChanges", save |-> TRUE], [type |-> "CloseExplorer"]>>
    /\ issued' = [issued EXCEPT !.commits = @ + 1]
    /\ fg' = "close_explorer"
    /\ UNCHANGED <<stores, sessions, objects, thread, locals, return_data_queue,
                   opening_page, current_displayed_page_id, result, log, expected>>

\* _FileSystemExplorer.close_explorer with its default save=False (also
\* __del__), up to the join
close_explorer ==
    /\ fg = "idle"
    /\ current_displayed_page_id # -1
    /\ MayCommit
    /\ request_queue' = request_queue \o
            <<[type |-> "CommitChanges", save |-> FALSE], [type |-> "CloseExplorer"]>>
    /\ issued' = [issued EXCEPT !.commits = @ + 1]
    /\ fg' = "close_explorer"
    /\ UNCHANGED <<stores, sessions, objects, thread, locals, return_data_queue,
                   opening_page, current_displayed_page_id, result, log, expected>>

\* close_explorer: self._thread.join() returns
close_explorer_return ==
    /\ fg = "close_explorer"
    /\ thread \in {"returned", "dead"}
    /\ fg' = "idle"
    /\ UNCHANGED <<stores, sessions, objects, thread, locals, request_queue,
                   return_data_queue, opening_page, current_displayed_page_id, result,
                   issued, log, expected>>

(* ------------------------------------------------------ the specification *)

Foreground ==
    \/ start_explorer
    \/ start_explorer_return
    \/ request_go_into_page
    \/ request_goto_page
    \/ request_selection
    \/ request_select_all
    \/ get_page
    \/ get_view_update
    \/ save_or_cancel_changes
    \/ close_explorer
    \/ close_explorer_return

\* one turn of the loop of _explorer_thread
Worker ==
    \/ HandleStartExplorer
    \/ HandleGoIntoPage
    \/ HandleGoToPage
    \/ HandleSelectItem
    \/ HandleSelectAll
    \/ HandleCommitChanges
    \/ HandleCloseExplorer
    \/ DisplayDirections
    \/ DisplayName
    \/ DisplaySelection
    \/ DisplayImage
    \/ DisplaySelectDirection

Next == Foreground \/ Worker

Spec == Init /\ [][Next]_vars

\* What handling a request, and no other step, does: the worker takes the
\* request at the head of the queue.
HandlerTurn ==
    thread = "running" /\ request_queue # << >> /\ request_queue' = Tail(request_queue)

\* What a turn of the display work, and no other step, does: with no request
\* waiting the worker moves on in the stage list, or to the next item of the
\* stage, or dies of an exception.
DisplayTurn ==
    /\ thread = "running" /\ request_queue = << >> /\ current_display_stage # << >>
    /\ \/ /\ current_display_stage' = Tail(current_display_stage)
          /\ current_display_index' \in {0, current_display_index}
          /\ thread' = thread
       \/ /\ current_display_index' = current_display_index + 1
          /\ UNCHANGED <<current_display_stage, thread>>
       \/ /\ thread' = "dead"
          /\ UNCHANGED <<current_display_stage, current_display_index>>

\* The worker thread takes its turns whenever it can, and a blocking get
\* returns once the queue holds a message: the scheduler starves no thread.
FairSpec ==
    /\ Spec
    /\ WF_request_queue(HandlerTurn)
    /\ WF_<<current_display_stage, current_display_index, thread>>(DisplayTurn)
    /\ WF_vars(get_page)
    /\ WF_vars(start_explorer_return)

(* ------------------------------------------- the catalog nodes on their own *)

\* The values a caller can hand to the selected setters: the bools, and the
\* member Partial of PhotoDirectorySelection.
SelectionValues == {"True", "False", "Partial"}

\* CurrentDirectoryInfo(runtime_session, persistent_session, None, None) and
\* its get_page(0), as StartExplorer does them
NodeLoadRoot ==
    /\ dn = << >>
    /\ LET W1 == EnsureLoaded([World EXCEPT !.dn = RootKey :> NewDirectory(<< >>, -1, -1, NONE)],
                              RootKey)
       IN  /\ dn' = W1.dn
           /\ pn' = W1.pn
           /\ result' = [type |-> "Loaded", raised |-> W1.fault]
    /\ UNCHANGED <<stores, sessions, thread, locals, request_queue, return_data_queue,
                   opening_page, current_displayed_page_id, fg, issued, log, expected>>

\* get_page(0) on a directory object not loaded yet
NodeGetPage ==
    /\ \E k \in DOMAIN dn :
        /\ ~dn[k].loaded
        /\ LET W1 == EnsureLoaded(World, k)
           IN  /\ dn' = W1.dn
               /\ pn' = W1.pn
               /\ result' = [type |-> "Loaded", raised |-> W1.fault]
    /\ UNCHANGED <<stores, sessions, thread, locals, request_queue, return_data_queue,
                   opening_page, current_displayed_page_id, fg, issued, log, expected>>

\* item.selected = value on an object of a loaded page: the world as the
\* setter leaves it, whether it returned or raised
NodeSetSelected ==
    /\ issued.requests < MaxRequests
    /\ \E k \in DOMAIN dn, value \in SelectionValues :
        /\ dn[k].loaded
        /\ \E item \in SeqToSet(Flatten(dn[k].pages, 1)) :
            LET W1 == item_set_selected(World, item, value)
            IN  /\ dn' = W1.dn
                /\ pn' = W1.pn
                /\ runtime_session' = W1.rs
                /\ persistent_session' = W1.ps
                /\ result' = [type |-> "Set", item |-> item, value |-> value,
                              raised |-> W1.fault]
    /\ issued' = [issued EXCEPT !.requests = @ + 1]
    /\ UNCHANGED <<stores, thread, locals, request_queue, return_data_queue,
                   opening_page, current_displayed_page_id, fg, log, expected>>

NodeNext == NodeLoadRoot \/ NodeGetPage \/ NodeSetSelected

NodeSpec == Init /\ [][NodeNext]_vars

(* ------------------------------------------------------------ the scanner *)

\* How many times a run calls rescan: once from PhotoContainer.__init__, and
\* again on the user's request.
MaxRescans == 2

(***************************************************************************)
(* The photo tree under PHOTOS_PATH: directory (a path relative to the     *)
(* root) -> the names of its subdirectories and of its image files.        *)
(***************************************************************************)
TreeFull ==
    (<< >> :> [dirs |-> {"A", "B"}, files |-> {"r1"}])
    @@ (<<"A">> :> [dirs |-> {"X"}, files |-> {"a1"}])
    @@ (<<"A", "X">> :> [dirs |-> {}, files |-> {"x1"}])
    @@ (<<"B">> :> [dirs |-> {}, files |-> {"b1"}])

TreeAlbum ==
    (<< >> :> [dirs |-> {"A", "E"}, files |-> {}])
    @@ (<<"A">> :> [dirs |-> {}, files |-> {"a1", "a2"}])
    @@ (<<"E">> :> [dirs |-> {"F"}, files |-> {}])
    @@ (<<"E", "F">> :> [dirs |-> {}, files |-> {}])

TreeKnown ==
    (<< >> :> [dirs |-> {"A", "B"}, files |-> {}])
    @@ (<<"A">> :> [dirs |-> {}, files |-> {"a1"}])
    @@ (<<"B">> :> [dirs |-> {}, files |-> {"b1"}])

TreeEmpty == (<< >> :> [dirs |-> {}, files |-> {}])

Trees == {TreeFull, TreeAlbum, TreeKnown, TreeEmpty}

\* What iterdir() yields for directory d, as a set.
Entries(tree, d) ==
    {[kind |-> "dir", name |-> n] : n \in tree[d].dirs}
    \cup {[kind |-> "file", name |-> n] : n \in tree[d].files}

\* The orders iterdir() can yield a set of entries in: any.
Perms(S) ==
    {s \in [1..Cardinality(S) -> S] : \A x \in S : \E i \in 1..Cardinality(S) : s[i] = x}

RECURSIVE OrdersOver(_, _)
\* One order of enumeration for every directory of ds.
OrdersOver(tree, ds) ==
    IF ds = {} THEN {<< >>}
    ELSE LET d == CHOOSE x \in ds : TRUE
         IN  {(d :> p) @@ o : p \in Perms(Entries(tree, d)), o \in OrdersOver(tree, ds \ {d})}

Orders(tree) == OrdersOver(tree, DOMAIN tree)

\* PhotoListV1 as upgrade.py leaves it (path = the v0 album, which
\* analyse.py only ever takes from a directory directly under the root;
\* selected as the v0 settings chose), here with one photo whose file is
\* gone; or empty, a first start.
Upgraded(s1, s2) ==
    << [PhotoListRow(1, <<"A">>, "a1") EXCEPT !.selected = s1],
       [PhotoListRow(2, <<"B">>, "b1") EXCEPT !.selected = s2],
       [PhotoListRow(3, <<"A">>, "gone") EXCEPT !.selected = TRUE] >>

InitialPhotoLists == {<< >>} \cup {Upgraded(s1, s2) : s1, s2 \in BOOLEAN}

\* the ExistingFiles rows of container.py:788-792
ExistingFilesOf(pl) ==
    [j \in 1..Len(pl) |-> [photo_path |-> PathJoin(pl[j].path, pl[j].filename), found |-> FALSE]]

\* the id the store gives the next row of PhotoListV1
NextId(pl) ==
    IF pl = << >> THEN 1
    ELSE 1 + CHOOSE m \in {pl[j].id : j \in 1..Len(pl)} : \A j \in 1..Len(pl) : pl[j].id <= m

\* str(relative_path.parent) for a file of directory d
ParentStr(d) == IF d = << >> THEN DotPath ELSE d

\* The sessions as scan_directory(None) meets them: NumPhotos emptied
\* (container.py:785-786), ExistingFiles filled from PhotoListV1; total is
\* self._total_num_photos (container.py:866).
RescanStart ==
    [np |-> << >>, pl |-> photolist, ef |-> ExistingFilesOf(photolist), raised |-> NONE,
     total |-> 0]

ScanRaise(S, exception) == [S EXCEPT !.acc.raised = exception]

\* A scan that counts every subdirectory as an album, an empty one as one
\* with nothing selected.
CountEvery(S, sub) ==
    IF sub.acc.raised # NONE THEN [S EXCEPT !.acc = sub.acc]
    ELSE [acc |-> sub.acc,
          num_photos |-> S.num_photos,
          num_albums |-> S.num_albums + 1,
          directory_selected |-> IF sub.found
                                 THEN ScanFoldDirectory(S.directory_selected, sub.selected)
                                 ELSE ScanFoldPhoto(S.directory_selected, FALSE)]

\* container.py:809-819: the subdirectory has been scanned
ScanSubdirectory(S, sub) ==
    IF sub.acc.raised # NONE \/ ~sub.found THEN [S EXCEPT !.acc = sub.acc]
    ELSE [acc |-> sub.acc,
          num_photos |-> S.num_photos,
          num_albums |-> S.num_albums + 1,
          directory_selected |-> ScanFoldDirectory(S.directory_selected, sub.selected)]

\* container.py:842-851
ScanCountPhoto(S, acc, photo_selected) ==
    [acc |-> [acc EXCEPT !.total = @ + 1],
     num_photos |-> S.num_photos + 1,
     num_albums |-> S.num_albums,
     directory_selected |-> ScanFoldPhoto(S.directory_selected, photo_selected)]

\* container.py:833-840: the flag of the one record of the rediscovered file
ScanRediscovered(S, acc, records) ==
    IF records = {} THEN ScanRaise(S, "NoResultFound")
    ELSE IF Cardinality(records) > 1 THEN ScanRaise(S, "MultipleResultsFound")
    ELSE ScanCountPhoto(S, acc, \E j \in records : acc.pl[j].selected)

\* container.py:824-840: found are the ExistingFiles rows the UPDATE matched
ScanFound(S, dir, name, found) ==
    IF Cardinality(found) > 1 THEN ScanRaise(S, "MultipleResultsFound")
    ELSE IF found = {} THEN
        ScanCountPhoto(S,
            [S.acc EXCEPT !.pl = Append(@, [id |-> NextId(S.acc.pl), path |-> ParentStr(dir),
                                            filename |-> name, selected |-> FALSE])],
            FALSE)
    ELSE
        ScanRediscovered(S,
            [S.acc EXCEPT !.ef = [j \in 1..Len(@) |-> IF j \in found THEN [@[j] EXCEPT !.found = TRUE]
                                                       ELSE @[j]]],
            {j \in 1..Len(S.acc.pl) :
                S.acc.pl[j].path = ParentStr(dir) /\ S.acc.pl[j].filename = name})

\* container.py:820-851: path is an image file
ScanPhoto(S, dir, name) ==
    ScanFound(S, dir, name,
        {j \in 1..Len(S.acc.ef) : S.acc.ef[j].photo_path = PathJoin(dir, name)})

\* container.py:855-864.  db/runtime.py declares NumPhotos without the
\* column "selected" that container.py writes here and reads in
\* CurrentDirectoryInfo: on that table the constructor raises TypeError.
ScanReturn(dir, S) ==
    IF S.acc.raised # NONE THEN [acc |-> S.acc, found |-> FALSE, selected |-> NONE]
    ELSE IF S.num_photos # 0 \/ S.num_albums # 0 THEN
        IF ~catalog.selected_column
        THEN [acc |-> [S.acc EXCEPT !.raised = "TypeError"], found |-> FALSE, selected |-> NONE]
        ELSE [acc |-> [S.acc EXCEPT !.np = Append(@,
                        [prefix_path |-> IF Len(dir) <= 1 THEN NoPath
                                         ELSE SubSeq(dir, 1, Len(dir) - 1),
                         directory |-> IF dir = << >> THEN NoName ELSE dir[Len(dir)],
                         num_photos |-> S.num_photos,
                         num_albums |-> S.num_albums,
                         selected |-> EnumValue(S.directory_selected)])],
              found |-> TRUE,
              selected |-> S.directory_selected]
    ELSE [acc |-> S.acc, found |-> FALSE, selected |-> NONE]

RECURSIVE scan_directory(_, _, _, _, _)
RECURSIVE ScanEntries(_, _, _, _, _, _)

\* the body of the loop of container.py:804-853 for one entry
ScanEntry(S, tree, order, fail, dir, entry) ==
    IF entry.kind = "dir"
    THEN ScanSubdirectory(S, scan_directory(S.acc, tree, order, fail, PathJoin(dir, entry.name)))
    ELSE ScanPhoto(S, dir, entry.name)

\* the loop of container.py:804-853 from the i-th entry on
ScanEntries(S, tree, order, fail, dir, i) ==
    IF S.acc.raised # NONE \/ i > Len(order[dir]) THEN S
    ELSE ScanEntries(ScanEntry(S, tree, order, fail, dir, order[dir][i]),
                     tree, order, fail, dir, i + 1)

\* scan_directory(dir); iterdir() raises OSError for the directory fail
scan_directory(acc, tree, order, fail, dir) ==
    IF dir = fail
    THEN [acc |-> [acc EXCEPT !.raised = "OSError"], found |-> FALSE, selected |-> NONE]
    ELSE ScanReturn(dir,
            ScanEntries([acc |-> acc, num_photos |-> 0, num_albums |-> 0, directory_selected |-> NONE],
                        tree, order, fail, dir, 1))

\* What rescan leaves committed: the delete of NumPhotos is committed before
\* the scan (container.py:786); the rows the scan added to either store are
\* committed after it (container.py:871, 880) and dropped with the sessions
\* when it raised.
RescanInstall(tree, fail, scan) ==
    /\ numphotos' = (IF scan.acc.raised # NONE THEN << >> ELSE scan.acc.np)
    /\ photolist' = (IF scan.acc.raised # NONE THEN photolist ELSE scan.acc.pl)
    /\ runtime_session' = numphotos'
    /\ persistent_session' = photolist'
    /\ result' = [type |-> "rescan", tree |-> tree, fail |-> fail, raised |-> scan.acc.raised]

\* PhotoContainer.rescan over some tree, with some order of enumeration, and
\* with at most one directory that cannot be enumerated.  It runs between
\* explorer sessions: the catalog nodes of the last one are gone.
rescan ==
    /\ issued.requests < MaxRescans
    /\ \E tree \in Trees :
        \E order \in Orders(tree), fail \in (DOMAIN tree) \cup {NoPath} :
            RescanInstall(tree, fail, scan_directory(RescanStart, tree, order, fail, << >>))
    /\ dn' = << >>
    /\ pn' = << >>
    /\ issued' = [issued EXCEPT !.requests = @ + 1]
    /\ UNCHANGED <<catalog, thread, locals, request_queue, return_data_queue,
                   opening_page, current_displayed_page_id, fg, log, expected>>

\* The stores a process starts on: NumPhotos is a runtime table, empty
\* until the first rescan; PhotoListV1 persists.
RescanInit ==
    /\ \E pl \in InitialPhotoLists, column \in BOOLEAN :
        /\ catalog = [numphotos |-> << >>, photolist |-> pl, lost |-> {},
                      selected_column |-> column]
        /\ photolist = pl
    /\ numphotos = << >>
    /\ runtime_session = numphotos
    /\ persistent_session = photolist
    /\ dn = << >>
    /\ pn = << >>
    /\ thread = "none"
    /\ directory_info = << >>
    /\ page_number = << >>
    /\ current_page_id = -1
    /\ next_pages = << >>
    /\ current_display_index = 0
    /\ current_display_stage = << >>
    /\ directory = "unbound"
    /\ request_queue = << >>
    /\ return_data_queue = << >>
    /\ opening_page = FALSE
    /\ current_displayed_page_id = -1
    /\ fg = "idle"
    /\ result = NoResult
    /\ issued = [requests |-> 0, commits |-> 0, saves |-> 0, valid |-> FALSE,
                 last |-> NoResult, threads |-> 0]
    /\ log = << >>
    /\ expected = Flags(photolist)

\* rescan, and the root page an explorer loads from the stores it left
RescanNext == rescan \/ NodeLoadRoot

RescanSpec == RescanInit /\ [][RescanNext]_vars

(* ---------------------------------------------------------------- the GUI *)

(***************************************************************************)
(* PhotoWindow (photos/main.py) with its title bar, its gallery window and *)
(* the settings window's rescan button.  Everything here runs on the Tk    *)
(* main thread, one callback at a time; the explorer's worker runs beside  *)
(* it.  In GuiSpec the variable fg holds the state of that main thread:    *)
(*   pc              "init" (PhotoWindow.__init__ not yet run), "mainloop",*)
(*                   "start_explorer" (a callback is blocked in the get of *)
(*                   container.py:248), "close_explorer" (blocked in the   *)
(*                   join of container.py:273), "raised" (__init__ raised) *)
(*   constructing    the callback running is the one __init__ invoked      *)
(*   current_window  PhotoWindow._current_window                           *)
(*   gallery_window  PhotoWindow._gallery_window is not None               *)
(*   update_view_job PhotoGalleryWindow._update_view_job is not None       *)
(*   radio, selected RadioButtonSet._selected and the buttons whose own    *)
(*                   _selected is set                                      *)
(*   slideshow       the slideshow button is enabled                       *)
(*   num_photos      PhotoContainer.num_photos                             *)
(*   explorers       the _FileSystemExplorer objects created so far        *)
(* An exception in a callback other than the one __init__ runs is reported *)
(* by Tk and the main loop goes on.                                        *)
(***************************************************************************)

\* How many gallery windows, each with its own _FileSystemExplorer, a run
\* creates.
MaxExplorers == 1

\* Scenario has photos selected, Fresh has photos and none selected.
GuiCatalogs == {Scenario, Fresh, EmptyCatalog}

\* PhotoContainer.photos_selected: reorder filled PhotoOrder from the
\* selected photos (container.py:908-914)
photos_selected == \E j \in 1..Len(photolist) : photolist[j].selected

\* RadioButtonSet.add_button._update_buttons for button b, before command()
UpdateButtons(g, b) ==
    [g EXCEPT !.radio = b,
              !.selected = (IF g.radio = NONE THEN @ ELSE @ \ {g.radio}) \cup {b}]

\* PhotoWindow._close_current_window.  place_forget of a gallery window with
\* an update job closes the explorer (gallery.py:619-622) and waits in join.
CloseCurrentWindow(g) ==
    IF g.current_window = "Gallery" /\ g.update_view_job
    THEN [g EXCEPT !.update_view_job = FALSE, !.pc = "close_explorer"]
    ELSE [g EXCEPT !.current_window = NONE]

\* PhotoWindow._open_photo_gallery, entered with the main thread as g, up to
\* its end or to the get of start_explorer
OpenPhotoGallery(g) ==
    LET closed == CloseCurrentWindow(g)
        made == [closed EXCEPT !.gallery_window = TRUE,
                               !.explorers = IF g.gallery_window THEN @ ELSE @ + 1]
    IN  IF closed.pc = "close_explorer"
        THEN /\ fg' = closed
             /\ request_queue' = request_queue
                    \o << [type |-> "CommitChanges", save |-> FALSE], [type |-> "CloseExplorer"] >>
             /\ UNCHANGED <<thread, opening_page, issued>>
        ELSE IF g.num_photos = 0        \* NoPhotosPage
        THEN /\ fg' = [made EXCEPT !.current_window = "Gallery", !.pc = "mainloop",
                                   !.constructing = FALSE]
             /\ UNCHANGED <<thread, opening_page, request_queue, issued>>
        ELSE IF StartRefused            \* start_explorer raises
        THEN /\ fg' = [made EXCEPT !.pc = IF g.constructing THEN "raised" ELSE "mainloop"]
             /\ UNCHANGED <<thread, opening_page, request_queue, issued>>
        ELSE /\ fg' = [made EXCEPT !.pc = "start_explorer"]
             /\ thread' = "running"
             /\ opening_page' = TRUE
             /\ request_queue' = Append(request_queue, [type |-> "StartExplorer"])
             /\ issued' = [issued EXCEPT !.threads = @ + 1]

\* PhotoWindow.__init__ after PhotoContainer has scanned
PhotoWindow ==
    /\ fg.pc = "init"
    /\ IF photos_selected
         THEN /\ fg' = [fg EXCEPT !.pc = "mainloop", !.current_window = "Display",
                                  !.slideshow = TRUE]
              /\ UNCHANGED <<thread, opening_page, request_queue, issued>>
         ELSE OpenPhotoGallery(UpdateButtons([fg EXCEPT !.constructing = TRUE], "gallery"))
    /\ UNCHANGED <<stores, sessions, objects, locals, return_data_queue,
                   current_displayed_page_id, result, log, expected>>

\* A click on a button the title bar offers: enabled and not selected.
Click(b) == fg.pc = "mainloop" /\ b \notin fg.selected

\* the gallery button: callback_open_gallery (title.py:92-94)
_open_photo_gallery ==
    /\ Click("gallery")
    /\ fg.gallery_window \/ fg.explorers < MaxExplorers
    /\ OpenPhotoGallery(UpdateButtons(fg, "gallery"))
    /\ UNCHANGED <<stores, sessions, objects, locals, return_data_queue,
                   current_displayed_page_id, result, log, expected>>

\* PhotoGalleryWindow.place from the return of start_explorer on
\* (gallery.py:596-615): the title of the root is None, and
\* os.path.join(None) raises TypeError before _update_view is reached.
GalleryPlaced ==
    /\ fg.pc = "start_explorer"
    /\ return_data_queue # << >>
    /\ return_data_queue' = Tail(return_data_queue)
    /\ result' = Head(return_data_queue)
    /\ current_displayed_page_id' = Head(return_data_queue).new_page_id
    /\ opening_page' = FALSE
    /\ fg' = IF Head(return_data_queue).title = NoName
             THEN [fg EXCEPT !.pc = IF fg.constructing THEN "raised" ELSE "mainloop"]
             ELSE [fg EXCEPT !.pc = "mainloop", !.constructing = FALSE,
                             !.update_view_job = TRUE, !.current_window = "Gallery"]
    /\ UNCHANGED <<stores, sessions, objects, thread, locals, request_queue, issued, log,
                   expected>>

\* A callback that closes the current window and shows another one.
OpenWindow(b, window) ==
    /\ LET closed == CloseCurrentWindow(UpdateButtons(fg, b))
       IN  IF closed.pc = "close_explorer"
           THEN /\ fg' = closed
                /\ request_queue' = request_queue
                    \o << [type |-> "CommitChanges", save |-> FALSE], [type |-> "CloseExplorer"] >>
           ELSE /\ fg' = [closed EXCEPT !.current_window = window]
                /\ UNCHANGED request_queue
    /\ UNCHANGED <<stores, sessions, objects, thread, locals, return_data_queue,
                   opening_page, current_displayed_page_id, result, issued, log, expected>>

\* the settings button
_open_settings ==
    /\ Click("settings")
    /\ OpenWindow("settings", "Settings")

\* the voltage button, shown while the supply is low
_open_voltage_warning ==
    /\ Click("voltage")
    /\ OpenWindow("voltage", "LowVoltageWarning")

\* the slideshow button: display_photo_title deselects every button
\* (title.py:143-145), and invoke then selects this one (elements.py:379-381)
_open_slideshow_window ==
    /\ Click("slideshow")
    /\ fg.slideshow
    /\ LET closed == CloseCurrentWindow(fg)
       IN  IF closed.pc = "close_explorer"
           THEN /\ fg' = UpdateButtons(closed, "slideshow")
                /\ request_queue' = request_queue
                    \o << [type |-> "CommitChanges", save |-> FALSE], [type |-> "CloseExplorer"] >>
           ELSE /\ fg' = [closed EXCEPT !.current_window = "Display", !.radio = NONE,
                                        !.selected = {"slideshow"}]
                /\ UNCHANGED request_queue
    /\ UNCHANGED <<stores, sessions, objects, thread, locals, return_data_queue,
                   opening_page, current_displayed_page_id, result, issued, log, expected>>

\* PhotoSettings._trigger_rescan: rescan, then _destroy_photo_window unless
\* rescan raised.  A worker still running keeps its sessions open: what they
\* see of the rescanned stores is not defined, either the old rows or the new.
TriggerRescan(tree, fail, scan) ==
    /\ numphotos' = (IF scan.acc.raised # NONE THEN << >> ELSE scan.acc.np)
    /\ photolist' = (IF scan.acc.raised # NONE THEN photolist ELSE scan.acc.pl)
    /\ \/ thread = "running" /\ UNCHANGED sessions
       \/ runtime_session' = numphotos' /\ persistent_session' = photolist'
    /\ result' = [type |-> "rescan", tree |-> tree, fail |-> fail, raised |-> scan.acc.raised]
    /\ fg' = [fg EXCEPT !.num_photos = scan.acc.total,
                        !.gallery_window = IF scan.acc.raised # NONE THEN @ ELSE FALSE]

_trigger_rescan ==
    /\ fg.pc = "mainloop"
    /\ fg.current_window = "Settings"
    /\ issued.requests < MaxRescans
    /\ \E tree \in Trees :
        \E order \in Orders(tree), fail \in (DOMAIN tree) \cup {NoPath} :
            TriggerRescan(tree, fail, scan_directory(RescanStart, tree, order, fail, << >>))
    /\ issued' = [issued EXCEPT !.requests = @ + 1]
    /\ UNCHANGED <<catalog, objects, thread, locals, request_queue, return_data_queue,
                   opening_page, current_displayed_page_id, log, expected>>

\* The process after PhotoContainer.__init__ has run its rescan.
GuiInit ==
    /\ \E c \in GuiCatalogs :
        /\ catalog = [numphotos |-> c.numphotos, photolist |-> c.photolist, lost |-> c.lost,
                      selected_column |-> TRUE]
        /\ \E sel \in InitSelections(c) :
            /\ photolist = StoredPhotoList(c, sel)
            /\ numphotos = ScannedNumPhotos(c, sel)
    /\ runtime_session = numphotos
    /\ persistent_session = photolist
    /\ dn = << >>
    /\ pn = << >>
    /\ thread = "none"
    /\ directory_info = << >>
    /\ page_number = << >>
    /\ current_page_id = -1
    /\ next_pages = << >>
    /\ current_display_index = 0
    /\ current_display_stage = << >>
    /\ directory \in {"unbound", "True"}
    /\ request_queue = << >>
    /\ return_data_queue = << >>
    /\ opening_page = FALSE
    /\ current_displayed_page_id = -1
    /\ fg = [pc |-> "init", constructing |-> FALSE, current_window |-> NONE,
             gallery_window |-> FALSE, update_view_job |-> FALSE, radio |-> NONE,
             selected |-> {}, slideshow |-> FALSE,
             num_photos |-> Len(SelectSeq(photolist, LAMBDA p : p.id \notin catalog.lost)),
             explorers |-> 0]
    /\ result = NoResult
    /\ issued = [requests |-> 0, commits |-> 0, saves |-> 0, valid |-> FALSE,
                 last |-> NoResult, threads |-> 0]
    /\ log = << >>
    /\ expected = Flags(photolist)

GuiNext ==
    \/ PhotoWindow
    \/ _open_photo_gallery
    \/ GalleryPlaced
    \/ _open_settings
    \/ _open_voltage_warning
    \/ _open_slideshow_window
    \/ _trigger_rescan
    \/ HandleStartExplorer
    \/ DisplayDirections
    \/ DisplayName
    \/ DisplaySelection
    \/ DisplayImage
    \/ DisplaySelectDirection

GuiSpec == GuiInit /\ [][GuiNext]_vars

(* -------------------------------------------------------------- the claims *)

\* The flags the Catalog Store held when the run started.
AtStart == StoredPhotoList(catalog, PhotoIds(catalog) \cap Preselected)

\* The TriState combination of the states of a directory's children: all
\* All -> All, all Not -> Not, anything else -> Partial.
Combine(states) ==
    IF states = {"All"} THEN "All" ELSE IF states = {"Not"} THEN "Not" ELSE "Partial"

\* The current states of the children of directory d (a path of the photo
\* tree): the aggregate rows of its subdirectories and the flags of its photos.
ChildStates(rs, ps, d) ==
    {value_to_enum(rs[i].selected) : i \in {j \in 1..Len(rs) :
        /\ rs[j].directory # NoName
        /\ Len(RowDirectory(rs[j])) = Len(d) + 1
        /\ SubSeq(RowDirectory(rs[j]), 1, Len(d)) = d}}
    \cup {IF ps[i].selected THEN "All" ELSE "Not" : i \in {j \in 1..Len(ps) :
        RowPhotoDirectory(ps[j]) = d /\ ps[j].id \notin catalog.lost}}

\* The worker has handled a selection write and is still running.
SelectionWritten ==
    thread = "running" /\ \E i \in 1..Len(log) : log[i] \in {"Select", "SelectAll"}

AggregateConsistencyAtStart ==
    log = << >> =>
        \A i \in 1..Len(runtime_session) :
            LET states == ChildStates(runtime_session, persistent_session,
                                      RowDirectory(runtime_session[i]))
            IN  states # {} =>
                    value_to_enum(runtime_session[i].selected) = Combine(states)

\* The last request the worker handled.
LastHandled == IF log = << >> THEN "None" ELSE log[Len(log)]

\* C2: as long as the foreground has asked for no save, the Catalog Store
\* holds the flags it held at the start, and once the worker has handled a
\* cancel its session shows those flags again, whatever edits came before.
CancelRestoresStart ==
    issued.saves = 0 =>
        /\ photolist = AtStart
        /\ LastHandled \in {"Cancel", "Discard"} => persistent_session = AtStart

\* C2's case: the worker has handled a cancel that had edits to discard.
CancelDiscardedEdits ==
    /\ LastHandled = "Discard"
    /\ \E i \in 1..Len(log) : log[i] \in {"Select", "SelectAll"}
    /\ thread = "running"

CloseDiscardsEdits ==
    (thread \in {"returned", "dead"} /\ issued.saves = 0) =>
        /\ photolist = AtStart
        /\ persistent_session = AtStart
        /\ runtime_session = numphotos

\* C5's case: close_explorer returned, its cancel having had edits to discard
\* that no save_or_cancel_changes call had dealt with.
ClosedWithEdits ==
    /\ thread = "returned" /\ fg = "idle"
    /\ Len(log) >= 3
    /\ log[Len(log)] = "Close" /\ log[Len(log) - 1] = "Discard"
    /\ issued.commits = 1

\* The messages get_view_update hands to the caller.
ViewUpdates == {"DirectionsUpdate", "NameViewUpdate", "SelectViewUpdate", "FullImageViewUpdate"}

\* C4: get_view_update never returns an update of a page older than the
\* displayed one: neither the update it last returned, nor the one it would
\* return from the response queue as it stands were the displayed page any
\* later one.
NoStaleUpdate ==
    /\ result.type \in ViewUpdates => result.current_page_id >= current_displayed_page_id
    /\ \A displayed \in 0..(MaxRequests + 1) :
        LET r == NextViewUpdate(return_data_queue, displayed).result
        IN  r.type \in ViewUpdates => r.current_page_id >= displayed

\* C4's case: after a navigation has returned a new page id, get_view_update
\* has returned an update of that page while updates of it are still queued.
UpdateAfterNavigation ==
    /\ current_displayed_page_id >= 1
    /\ result.type \in ViewUpdates
    /\ return_data_queue # << >>

\* C6: the worker's page id is 0 once Start is handled, grows by exactly 1
\* with every GoInto or GoTo it handles, and changes with nothing else while
\* the worker runs; the page id the foreground displays only ever grows.
PageIdSteps ==
    [][/\ log' = Append(log, "Start") => current_page_id' = 0
       /\ (log' = Append(log, "GoInto") \/ log' = Append(log, "GoTo"))
            => current_page_id' = current_page_id + 1
       /\ (/\ thread = "running" /\ thread' = "running"
           /\ log' \notin {Append(log, "Start"), Append(log, "GoInto"), Append(log, "GoTo")})
            => current_page_id' = current_page_id
       /\ current_displayed_page_id' # current_displayed_page_id
            => current_displayed_page_id' > current_displayed_page_id]_vars

\* C6's case: a GoInto and then a GoTo were handled, and the foreground
\* displays the page of the second.
TwoNavigationsDisplayed ==
    /\ \E i \in 1..Len(log) : log[i] = "GoInto"
    /\ LastHandled = "GoTo"
    /\ current_page_id = 2
    /\ current_displayed_page_id = 2

\* close_explorer has been called: the session is over.
SessionClosed ==
    \/ thread = "returned"
    \/ \E i \in 1..Len(request_queue) : request_queue[i].type = "CloseExplorer"

\* C7: under fair scheduling every navigation request the facade accepted in
\* an open session for a page that exists is answered: the foreground,
\* waiting in get_page, gets its DisplayNewPage and stops waiting (unless it
\* closes the session instead of waiting).
NavigationAnswered ==
    (opening_page /\ current_displayed_page_id # -1 /\ issued.valid /\ ~SessionClosed)
        ~> (~opening_page \/ SessionClosed)

\* The selection state the Aggregate Store (as the worker's session sees it)
\* holds for the directory at path d.
Aggregate(d) ==
    LET i == CHOOSE i \in 1..Len(runtime_session) : RowDirectory(runtime_session[i]) = d
    IN  value_to_enum(runtime_session[i].selected)

EmptyCatalogStarts ==
    (catalog = EmptyCatalog /\ fg = "start_explorer")
        => (thread = "running" \/ return_data_queue # << >>)

\* C10: for every directory whose pages are loaded, the pages hold
\* num_albums + num_photos items in all, every page but the last holds
\* NUM_ITEMS_PER_GALLERY_PAGE items, and no photo comes before a subdirectory.
Pagination ==
    \A k \in DOMAIN dn :
        (dn[k].loaded /\ dn[k].num_photos # -1) =>
            LET items == Flatten(dn[k].pages, 1)
            IN  /\ Len(items) = dn[k].num_albums + dn[k].num_photos
                /\ \A p \in 1..(Len(dn[k].pages) - 1) :
                        Len(dn[k].pages[p]) = NUM_ITEMS_PER_GALLERY_PAGE
                /\ \A i, j \in 1..Len(items) :
                        (i < j /\ IsDirectory(items[j])) => IsDirectory(items[i])

\* C11: pages are loaded once: a directory object whose pages are loaded keeps
\* them, page by page and item by item, in every later step, and the objects
\* of its pages are the ones created by that load (none is created anew, so
\* each keeps its parent and its own loaded pages).
PagesLoadedOnce ==
    [][\A k \in DOMAIN dn :
        dn[k].loaded =>
            /\ k \in DOMAIN dn'
            /\ dn'[k].loaded
            /\ dn'[k].pages = dn[k].pages
            /\ dn'[k].parent = dn[k].parent
            /\ \A i \in DOMAIN pn : i \in DOMAIN pn' /\ pn'[i].parent = pn[i].parent]_vars

\* C11's case: the root's pages, loaded by Start, were asked for again by a
\* SelectAll after a subdirectory's pages had been loaded by a GoInto.
PagesAskedAgain ==
    /\ log = <<"Start", "GoInto", "SelectAll">>
    /\ thread = "running"
    /\ \E k \in DOMAIN dn : k # RootKey /\ dn[k].loaded /\ dn[k].pages # << >>
    /\ dn[RootKey].loaded

StackInvariant ==
    /\ []((log # << >> /\ thread = "running") =>
            /\ Len(directory_info) >= 1
            /\ Len(page_number) = Len(directory_info)
            /\ directory_info[1] = DirItem(NoPath, NoName))
    /\ [][(/\ Handling("GoToPage") /\ Item.direction = "Up"
            /\ Len(directory_info) = 1
            /\ request_queue' = Tail(request_queue))
           => /\ thread' = "dead"
              /\ UNCHANGED <<directory_info, page_number, current_page_id, next_pages,
                             return_data_queue, log>>]_vars

\* C13's case: at depth 1 the foreground asked for GoTo(Up) and the worker
\* has handled the request.
UpAtRootHandled ==
    /\ issued.last.type = "GoToPage" /\ issued.last.direction = "Up"
    /\ issued.requests = 1
    /\ log = <<"Start">>
    /\ Len(directory_info) = 1
    /\ request_queue = << >>
    /\ thread = "dead"

\* C14: a facade never creates a second worker thread: no step creates a
\* thread, or puts a StartExplorer, while a thread has been created already
\* or a queue holds a message.
OneWorker ==
    /\ [](issued.threads <= 1)
    /\ [][(thread # "none" \/ request_queue # << >> \/ return_data_queue # << >>)
            => /\ issued'.threads = issued.threads
               /\ (thread' = "running" => thread = "running")
               /\ \A i \in 1..Len(request_queue') :
                    request_queue'[i].type = "StartExplorer"
                        => i <= Len(request_queue) /\ request_queue[i] = request_queue'[i]]_vars

\* C14's case: start_explorer was called while the worker was running, and
\* raised.
SecondStartRefused ==
    /\ result = [type |-> "Exception", method |-> "start_explorer"]
    /\ thread = "running"
    /\ issued.threads = 1

\* C15: the step in which an exception ends the worker closes the sessions
\* (what they had not committed is rolled back) and puts one message on the
\* response queue that is neither a page nor a view update: the report of the
\* fault.
FaultReported ==
    [][(thread = "running" /\ thread' = "dead")
        => /\ runtime_session' = numphotos /\ persistent_session' = photolist
           /\ Len(return_data_queue') = Len(return_data_queue) + 1
           /\ return_data_queue'[Len(return_data_queue')].type
                \notin ({"DisplayNewPage"} \cup ViewUpdates)]_vars

\* The requests the four request_* methods put.
Requests == {"GoIntoPage", "GoToPage", "SelectItem", "SelectAll"}

Navigations == {"GoIntoPage", "GoToPage"}

\* C16: a request of a request_* method is put on the request queue only when
\* a page is displayed, no navigation is awaiting its page, and the page id
\* passed is the displayed one; a navigation put raises the awaiting flag, and
\* the flag is up as long as a navigation waits in the queue, so no second
\* navigation can be put.
RequestValidation ==
    /\ [][(/\ Len(request_queue') = Len(request_queue) + 1
            /\ request_queue'[Len(request_queue')].type \in Requests)
           => /\ ~opening_page
              /\ current_displayed_page_id # -1
              /\ request_queue'[Len(request_queue')].current_page_id
                    = current_displayed_page_id
              /\ request_queue'[Len(request_queue')].type \in Navigations
                    => opening_page']_vars
    /\ [](\A i \in 1..Len(request_queue) :
            request_queue[i].type \in Navigations => opening_page)

\* C16's case: with a page displayed and no navigation awaited, a request_*
\* method was called with the id of the page before, and raised.
StaleRequestRefused ==
    /\ result.type = "Exception"
    /\ "method" \in DOMAIN result
    /\ result.method \in {"request_go_into_page", "request_goto_page",
                          "request_selection", "request_select_all"}
    /\ ~opening_page
    /\ current_displayed_page_id >= 1
    /\ request_queue = << >>
    /\ thread = "running"

\* C17: a selected setter handed Partial raises and has changed no row of
\* either store when it does.
PartialRejected ==
    [][(/\ result'.type = "Set" /\ issued'.requests = issued.requests + 1
        /\ result'.value = "Partial")
       => /\ result'.raised
          /\ runtime_session' = runtime_session
          /\ persistent_session' = persistent_session]_vars

\* The states of the children the last rescan found in directory d: the
\* aggregate rows of its non-empty subdirectories, and All or Not for the
\* record of each of its files.
ScannedChildStates(d) ==
    {value_to_enum(numphotos[i].selected) : i \in {j \in 1..Len(numphotos) :
        /\ numphotos[j].directory # NoName
        /\ Len(RowDirectory(numphotos[j])) = Len(d) + 1
        /\ SubSeq(RowDirectory(numphotos[j]), 1, Len(d)) = d}}
    \cup {IF photolist[i].selected THEN "All" ELSE "Not" : i \in {j \in 1..Len(photolist) :
        /\ RowPhotoDirectory(photolist[j]) = d
        /\ photolist[j].filename \in result.tree[d].files}}

\* C18: after a rescan, the selection of every row of the Aggregate Store is
\* the TriState combination of the states of all the children of its
\* directory, in whatever order the directories were enumerated.
ScannerAggregate ==
    (result.type = "rescan" /\ result.raised = NONE) =>
        \A j \in 1..Len(numphotos) :
            numphotos[j].selected
                = EnumValue(Combine(ScannedChildStates(RowDirectory(numphotos[j]))))

\* C18 witness: a rescan has written the root's row from two non-empty
\* subdirectories of different states and a photo.
ScannedMixedChildren ==
    /\ result.type = "rescan" /\ result.raised = NONE
    /\ \E j, a, b \in 1..Len(numphotos) :
        /\ numphotos[j].directory = NoName
        /\ numphotos[j].num_albums = 2 /\ numphotos[j].num_photos = 1
        /\ numphotos[j].selected = EnumValue("Partial")
        /\ RowDirectory(numphotos[a]) = <<"A">> /\ numphotos[a].selected = EnumValue("Partial")
        /\ RowDirectory(numphotos[b]) = <<"B">> /\ numphotos[b].selected = EnumValue("All")

\* C19: a rescan that fails to enumerate a directory leaves the Aggregate
\* Store with exactly the rows it held before.
RescanFailureAtomic ==
    [][(result'.type = "rescan" /\ result'.raised = "OSError") => numphotos' = numphotos]_vars

\* The file n of directory d had a record before the step.
KnownBefore(d, n) ==
    \E j \in 1..Len(photolist) :
        RowPhotoDirectory(photolist[j]) = d /\ photolist[j].filename = n

\* The records the step added for the file n of directory d.
Inserted(d, n) ==
    {j \in (Len(photolist) + 1)..Len(photolist') :
        RowPhotoDirectory(photolist'[j]) = d /\ photolist'[j].filename = n}

\* C20: a rescan keeps every record the Catalog Store held, flag included,
\* and one that completes has added exactly one record, not selected, for
\* each file that had none, and no other.
RescanFrame ==
    [][result'.type = "rescan" =>
        /\ Len(photolist') >= Len(photolist)
        /\ SubSeq(photolist', 1, Len(photolist)) = photolist
        /\ \A j \in (Len(photolist) + 1)..Len(photolist') : ~photolist'[j].selected
        /\ result'.raised = NONE =>
            /\ \A d \in DOMAIN result'.tree : \A n \in result'.tree[d].files :
                    Cardinality(Inserted(d, n)) = (IF KnownBefore(d, n) THEN 0 ELSE 1)
            /\ \A j \in (Len(photolist) + 1)..Len(photolist') :
                    /\ RowPhotoDirectory(photolist'[j]) \in DOMAIN result'.tree
                    /\ photolist'[j].filename
                            \in result'.tree[RowPhotoDirectory(photolist'[j])].files]_vars

RECURSIVE NonEmpty(_, _)
\* Directory d of the tree holds a photo, or a subdirectory that does.
NonEmpty(tree, d) ==
    tree[d].files # {} \/ \E n \in tree[d].dirs : NonEmpty(tree, PathJoin(d, n))

\* A completed rescan has left one row for each such directory and none for
\* any other, with the counts of its photos and of its non-empty subdirectories.
RowsPerDirectory ==
    (result.type = "rescan" /\ result.raised = NONE) =>
        /\ \A d \in DOMAIN result.tree :
            Cardinality({j \in 1..Len(numphotos) : RowDirectory(numphotos[j]) = d})
                = (IF NonEmpty(result.tree, d) THEN 1 ELSE 0)
        /\ \A j \in 1..Len(numphotos) :
            LET d == RowDirectory(numphotos[j])
            IN  /\ d \in DOMAIN result.tree
                /\ numphotos[j].num_photos = Cardinality(result.tree[d].files)
                /\ numphotos[j].num_albums
                    = Cardinality({n \in result.tree[d].dirs : NonEmpty(result.tree, PathJoin(d, n))})

\* Every directory listed on a loaded page counts a photo or an album.
ListedDirectoriesCounted ==
    \A k \in DOMAIN dn : dn[k].loaded =>
        \A i \in 1..Len(Flatten(dn[k].pages, 1)) :
            LET item == Flatten(dn[k].pages, 1)[i]
            IN  IsDirectory(item) =>
                    (dn[ItemKey(item)].num_photos # 0 \/ dn[ItemKey(item)].num_albums # 0)

\* C21: after a rescan the Aggregate Store has exactly one row per directory
\* that holds a photo or a non-empty subdirectory, num_albums counts the
\* non-empty subdirectories only, and no directory without photos and
\* without albums is an item of a page.
EmptyInvisible == RowsPerDirectory /\ ListedDirectoriesCounted

\* C21 witness: a rescan has completed over a tree in which the root has an
\* album and a subdirectory holding nothing but an empty directory.
ScannedPastEmpty ==
    /\ result.type = "rescan" /\ result.raised = NONE
    /\ result.tree = TreeAlbum
    /\ \E j \in 1..Len(numphotos) :
        numphotos[j].directory = NoName /\ numphotos[j].num_albums = 1

GuiNeverCloses == fg.pc # "close_explorer" /\ ~fg.update_view_job

UpdateKind(u) ==
    CASE u.type = "DirectionsUpdate" /\ u.backwards # NONE -> <<"Directions", -1>>
      [] u.type = "DirectionsUpdate" /\ u.backwards = NONE -> <<"SelectAll", -1>>
      [] u.type = "NameViewUpdate" -> <<"Name", u.index>>
      [] u.type = "SelectViewUpdate" -> <<"Selection", u.index>>
      [] u.type = "FullImageViewUpdate" -> <<"Image", -1>>
      [] OTHER -> <<u.type, -1>>

\* The items of the page the worker is on: those of the current page of a
\* directory, none for a photo.
PageItems ==
    IF IsDirectory(Top) THEN dn[ItemKey(Top)].pages[page_number[Len(page_number)] + 1]
    ELSE << >>

\* The display work of the page the worker is on, in the order of C25.
DisplayWork ==
    LET n == Len(PageItems)
        m == IF IsDirectory(Top) THEN n ELSE 1
    IN  <<<<"Directions", -1>>>>
          \o [i \in 1..n |-> <<"Name", i - 1>>]
          \o [i \in 1..m |-> <<"Selection", i - 1>>]
          \o (IF IsDirectory(Top) THEN << >> ELSE <<<<"Image", -1>>>>)
          \o <<<<"SelectAll", -1>>>>

\* The kinds of the updates on the response channel from position i on.
EmittedFrom(i) ==
    [j \in 1..(Len(return_data_queue) - i + 1) |-> UpdateKind(return_data_queue[i + j - 1])]

NameUpdatesOf(i, k) ==
    {j \in i..Len(return_data_queue) :
        /\ return_data_queue[j].type = "NameViewUpdate"
        /\ return_data_queue[j].index = k
        /\ return_data_queue[j].current_page_id = current_page_id}

PhotoDirectorySelection == {"Not", "Partial", "All"}

\* C28: reading selected on a directory node of the session hands back a
\* member of PhotoDirectorySelection, its stored aggregate, never an absent
\* value ...
DirectoryReadTriState ==
    \A k \in DOMAIN dn :
        /\ DirSelectedValue(World, k) \in PhotoDirectorySelection
        /\ Len(RowsOf(runtime_session, k)) = 1 =>
              DirSelectedValue(World, k) = value_to_enum(RowsOf(runtime_session, k)[1].selected)

\* ... and every SelectViewUpdate the Selection stage puts carries a member of
\* PhotoDirectorySelection.
SelectionStageTriState ==
    [][(Idle("Selection") /\ Len(return_data_queue') = Len(return_data_queue) + 1)
       => return_data_queue'[Len(return_data_queue')].selection \in PhotoDirectorySelection]_vars

\* C28: selection reads are tri-state, for the directory read and for the
\* updates of the Selection stage.
SelectionReadsTriState == []DirectoryReadTriState /\ SelectionStageTriState

\* Directory q lies in the subtree of directory d (d itself included).
Below(q, d) == Len(q) >= Len(d) /\ SubSeq(q, 1, Len(d)) = d

\* C29: when the selected setter of a directory node has written True or
\* False and returned, every photo row of the directory's subtree holds that
\* flag and the aggregate row of the directory and of every directory below
\* it holds All or Not accordingly, whatever writes the session made before.
DirectoryWriteDown ==
    [][(/\ result'.type = "Set" /\ issued'.requests = issued.requests + 1
        /\ IsDirectory(result'.item)
        /\ result'.value \in {"True", "False"}
        /\ ~result'.raised)
       => LET d == full_path(ItemKey(result'.item))
              v == result'.value = "True"
          IN  /\ \A i \in 1..Len(persistent_session') :
                    Below(RowPhotoDirectory(persistent_session'[i]), d) =>
                        persistent_session'[i].selected = v
              /\ \A i \in 1..Len(runtime_session') :
                    Below(RowDirectory(runtime_session'[i]), d) =>
                        runtime_session'[i].selected =
                            (IF v THEN EnumValue("All") ELSE EnumValue("Not"))]_vars

FirstDirections(i) ==
    /\ return_data_queue[i].type = "DirectionsUpdate"
    /\ return_data_queue[i].backwards # NONE
    /\ return_data_queue[i].current_page_id = current_page_id

\* C31: the DirectionsUpdate the Directions stage put for the page the worker
\* is on has up = (stack depth > 1); on a directory page backwards = (page
\* index > 0) and forwards = (page index < num_pages - 1); on a photo page
\* backwards and forwards are both false.
DirectionsContent ==
    \A i \in 1..Len(return_data_queue) :
        (thread = "running" /\ directory_info # << >> /\ FirstDirections(i)) =>
            LET u == return_data_queue[i]
                index == page_number[Len(page_number)]
            IN  /\ u.up = PyBool(Len(directory_info) > 1)
                /\ u.selection = NONE
                /\ IsDirectory(Top) =>
                      /\ u.backwards = PyBool(index > 0)
                      /\ u.forwards = PyBool(index < Len(dn[ItemKey(Top)].pages) - 1)
                /\ ~IsDirectory(Top) => (u.backwards = "False" /\ u.forwards = "False")

\* C31's case: the directions update of a directory page that has a page
\* after it is on the response channel.
DirectionsForwards ==
    /\ thread = "running" /\ directory_info # << >> /\ IsDirectory(Top)
    /\ Len(dn[ItemKey(Top)].pages) > 1
    /\ \E i \in 1..Len(return_data_queue) :
          FirstDirections(i) /\ return_data_queue[i].forwards = "True"

\* C32: whenever get_view_update would be accepted (a page is displayed and
\* none is being opened), the response channel holds no DisplayNewPage and no
\* update of a page later than the displayed one, so neither of the two
\* protocol-violation branches of get_view_update can be taken; and no
\* get_view_update ends in an exception.
NoFutureMessage ==
    /\ (fg = "idle" /\ ~opening_page /\ current_displayed_page_id # -1) =>
          /\ \A i \in 1..Len(return_data_queue) :
                /\ return_data_queue[i].type # "DisplayNewPage"
                /\ return_data_queue[i].current_page_id <= current_displayed_page_id
          /\ NextViewUpdate(return_data_queue, current_displayed_page_id).result.type
                # "Exception"
    /\ (~opening_page /\ result.type = "Exception") => "method" \in DOMAIN result

\* C32's case: after a navigation opened a page, get_view_update has handed over
\* an update of the displayed page and more messages wait on the channel.
UpdateOfOpenedPage ==
    /\ fg = "idle" /\ ~opening_page
    /\ current_displayed_page_id >= 1
    /\ result.type \in ViewUpdates
    /\ result.current_page_id = current_displayed_page_id
    /\ Len(return_data_queue) >= 2

RestartAfterClose ==
    [][(/\ start_explorer
        /\ thread = "returned" /\ LastHandled = "Close")
       => /\ thread' = "running"
          /\ fg' = "start_explorer"
          /\ request_queue' = <<[type |-> "StartExplorer"]>>
          /\ result' # [type |-> "Exception", method |-> "start_explorer"]]_vars

\* Every directory frame of the stack has its page index among the pages of
\* its directory.
PageIndexInRange ==
    \A i \in 1..Len(directory_info) :
        (i <= Len(page_number) /\ IsDirectory(directory_info[i])
            /\ dn[ItemKey(directory_info[i])].pages # << >>) =>
            /\ 0 <= page_number[i]
            /\ page_number[i] < Len(dn[ItemKey(directory_info[i])].pages)

\* C35: the page index of every directory frame of the traversal stack stays
\* within 0..num_pages-1 whatever GoTo(Previous) and GoTo(Next) requests the
\* facade accepted, and a Previous or Next that would leave that range is
\* turned down by the worker: the index stays, no page is announced and the
\* page id stays.
PageIndexStays ==
    /\ []PageIndexInRange
    /\ [][(/\ Handling("GoToPage") /\ request_queue' = Tail(request_queue)
           /\ Item.current_page_id = current_page_id
           /\ directory_info # << >> /\ IsDirectory(Top)
           /\ Item.direction \in {"Previous", "Next"}
           /\ ~ValidDirection(Item.direction))
          => /\ page_number' = page_number
             /\ directory_info' = directory_info
             /\ return_data_queue' = return_data_queue
             /\ current_page_id' = current_page_id]_vars

\* C35's case: the facade accepted a GoTo(Previous) on the first page of a
\* directory and the worker has dealt with it.
PreviousAtFirstPage ==
    /\ issued.last.type = "GoToPage" /\ issued.last.direction = "Previous"
    /\ issued.last.current_page_id = current_page_id
    /\ request_queue = << >> /\ thread # "running"
    /\ directory_info # << >> /\ IsDirectory(Top)
    /\ page_number[Len(page_number)] = 0

reorder(ps) == {ps[i].id : i \in {j \in 1..Len(ps) : ps[j].selected}}

\* The table PhotoOrder during a session: what the reorder at the end of the
\* rescan of PhotoContainer.__init__ stored.  No request of a session and no
\* step of the worker calls reorder or writes the table.
PhotoOrder == reorder(AtStart)

WorkerTurns == [][(HandlerTurn \/ DisplayTurn) <=> Worker]_vars

====
